---- MODULE Spec2Model ----
(***************************************************************************)
(* Verification model of the travelbuddy repository.                       *)
(*                                                                         *)
(* The repository is a set of independent components; each component has   *)
(* its own variables, its own actions and its own specification            *)
(* (SpecPoll, SpecRate, ...).  A component's actions leave the variables   *)
(* of the other components unchanged.                                      *)
(***************************************************************************)
EXTENDS Integers, Sequences, FiniteSets, TLC

(***************************************************************************)
(* Bounds of the model.                                                    *)
(***************************************************************************)
\* attempt limits 0..MaxSmallLimit are explored besides the default limit
MaxSmallLimit == 3
\* the clock of the free-running RateLimiter stops at MaxRateTime
MaxRateTime == 3
\* the clock of the Amadeus client stops at MaxTime
MaxTime == 32
\* the free-running RateLimiter records at most MaxStamps calls
MaxStamps == 11
\* a flight search is not started with MaxFlowStamps or more calls recorded
\* in the current window
MaxFlowStamps == 3
\* a response takes up to MaxLatency seconds
MaxLatency == 1
\* most itineraries in a SkyScanner response
MaxItineraries == 2
\* most leg ids in one itinerary
MaxLegIds == 2
\* most rows of chat_messages
MaxMessages == 2
\* latest value of the database clock
MaxDbTime == 3
\* largest value the users.id sequence hands out
MaxUserId == 3
\* tool calls in one LLM response of the planning graph
MaxToolCalls == 2
\* LLM responses in one run of the planning graph
MaxLlmCalls == 2
\* messages in a chat history
MaxHistory == 4
\* lines read from stdin in one run of the weather server
MaxLines == 2

(***************************************************************************)
(* Program constants.                                                      *)
(***************************************************************************)
MAX_POLLING_ATTEMPTS == 10
\* RateLimiter.__init__ defaults and the literals of record_429
max_calls == 10
time_frame == 1
BackoffInitial == 5
BackoffCap == 60
\* last_429_time = None
NoTime == -1

(***************************************************************************)
(* flight_service: FlightService.fetch_incomplete_search                   *)
(***************************************************************************)
VARIABLES
    pollPc,        \* "idle" | "polling" | "returned" | "raised"
    searchId,      \* the search_id argument of the running call
    maxAttempts,   \* local max_attempts (settings.MAX_POLLING_ATTEMPTS)
    attempt,       \* local attempt
    pollData,      \* local data: the last parsed response, or Unbound
    pollRequests,  \* number of GET requests sent by the running call
    pollResult     \* what the call returned / raised

pollVars == <<pollPc, searchId, maxAttempts, attempt, pollData, pollRequests, pollResult>>

(***************************************************************************)
(* server/tools/amadeus_api.py: RateLimiter and the Amadeus requests       *)
(***************************************************************************)
VARIABLES
    now,              \* time.time(), in whole seconds
    call_timestamps,  \* RateLimiter.call_timestamps
    last_429_time,    \* RateLimiter.last_429_time (NoTime for None)
    backoff_time,     \* RateLimiter.backoff_time
    wait,             \* the value returned by the last wait_time()
    amPc,             \* position inside perform_flight_search_api, or "idle"
    amParams,         \* the params of the running perform_flight_search_api
                      \* (NoParams when none is running)
    hasToken,         \* get_amadeus_access_token.last_valid_token is set
    iataCache,        \* keys of IATA_CODE_CACHE
    amResult          \* outcome of the last Amadeus operation

rateVars == <<now, call_timestamps, last_429_time, backoff_time, wait>>
amVars == <<amPc, amParams, hasToken, iataCache, amResult>>

(***************************************************************************)
(* server/agents/rootAgent.py: the travel graph                            *)
(***************************************************************************)
VARIABLES
    rootPc,               \* the node of the travel graph that runs next
    user_input,           \* state["user_input"], as the set of phrases in it
    messages,             \* state["messages"]
    current_agent,        \* state["current_agent"]
    is_weather_response,  \* state.get("is_weather_response", False)
    weather_data          \* state["weather_data"] is set

rootVars == <<rootPc, user_input, messages, current_agent, is_weather_response, weather_data>>

(***************************************************************************)
(* server/miniagents: the five mini-agent entry points                     *)
(***************************************************************************)
VARIABLES
    miniCall,          \* the last mini-agent call: agent, input, what the
                       \* tools and the LLM it used did
    miniResult,        \* what that call returned (or that it raised)
    RESTAURANT_CACHE,  \* Restaurants/agent.py RESTAURANT_CACHE
    ATTRACTIONS_CACHE  \* Attractions/agent.py ATTRACTIONS_CACHE (its keys)

miniVars == <<miniCall, miniResult, RESTAURANT_CACHE, ATTRACTIONS_CACHE>>

(***************************************************************************)
(* flight_service/app/controllers/flight_controller.py                     *)
(***************************************************************************)
VARIABLES
    pfPc,       \* "idle", or "done" after process_flight_data returned
    pfData,     \* the SkyScanner response handed to process_flight_data
    pfSource,   \* its source argument
    pfDestination, \* its destination argument
    pfResult    \* what it returned: the flights, or that it raised

pfVars == <<pfPc, pfData, pfSource, pfDestination, pfResult>>

(***************************************************************************)
(* server/tools/weather_tool.py: WeatherTool.call_mcp                      *)
(***************************************************************************)
VARIABLES
    wtPc,            \* "idle", "primary_sent", "fallback_sent", "done"
    mcp_server_url,  \* WeatherTool.mcp_server_url
    wtTool,          \* tool_name of the call in progress
    wtLocation,      \* parameters.get("location"), "" when the key is absent
    wtTried,         \* the requests of this call: url and how each ended
    wtResult         \* the dict call_mcp returned

wtVars == <<wtPc, mcp_server_url, wtTool, wtLocation, wtTried, wtResult>>

(***************************************************************************)
(* weather-mcp/simplified_mcp_server.py: SimplifiedMCP.handle_request      *)
(***************************************************************************)
VARIABLES
    mcpPc,        \* "idle", or "done" after handle_request returned
    mcpRequest,   \* request_data
    mcpResponse,  \* the dict handle_request returned
    owmCalled     \* whether the request reached OpenWeatherMap

mcpVars == <<mcpPc, mcpRequest, mcpResponse, owmCalled>>

(***************************************************************************)
(* server/controllers/llm_chat_historyController.py                        *)
(***************************************************************************)
VARIABLES
    chat_sessions,  \* table chat_sessions: id -> user_email, last_updated
    chat_messages,  \* table chat_messages: a set of rows
    dbNow,          \* func.now() of the database
    chPc,           \* "idle", or "done" after a controller method ended
    chCall,         \* the method called and its session id
    chResult        \* its HTTP status and detail, and how the lookup ended

chVars == <<chat_sessions, chat_messages, dbNow, chPc, chCall, chResult>>

(***************************************************************************)
(* server/controllers/userController.py: UserController.create_user        *)
(***************************************************************************)
VARIABLES
    users,        \* table users: rows with id, auth0id, email
    nextUserId,   \* the sequence behind users.id
    ucPc,         \* per request: "idle", "insert" (the query found no row), "done"
    ucData,       \* per request: user_data
    ucResult      \* per request: the HTTP status and the row returned

ucVars == <<users, nextUserId, ucPc, ucData, ucResult>>

(***************************************************************************)
(* flight_controller.py: FlightController.process_flight_request           *)
(***************************************************************************)
VARIABLES
    frPc,         \* "idle", the step about to run, "done", "raised", "responded"
    frRequest,    \* the FlightRequest
    frFailedAt,   \* the step whose exception ended the request, "" if none
    s3Objects,    \* the keys stored in the S3 bucket
    frUploaded,   \* the keys this request has uploaded
    frConf,       \* the conf of the payload handed to trigger_dag
    dagTriggered, \* whether Airflow accepted the DAG run of this request
    frException,  \* the exception that left process_flight_request
    frStatus      \* the HTTP status the route answers with, 0 before

frVars == <<frPc, frRequest, frFailedAt, s3Objects, frUploaded, frConf, dagTriggered,
            frException, frStatus>>

(***************************************************************************)
(* subagents/planning/agent.py: the planning graph and PlanningAgent.ainvoke *)
(***************************************************************************)
VARIABLES
    pgPc,         \* "idle", the node about to run, "END", "returned" or "raised"
    pgRun,        \* which of the two graph runs of ainvoke is under way
    pgMessages,   \* state["messages"]
    pgTools,      \* state["tools"]; tool_names and last_tool_call_ids follow it
    pgNextId,     \* the id of the next tool call the LLM makes
    pgLlmCalls,   \* LLM responses in this graph run
    pgResult      \* what ainvoke returned

pgVars == <<pgPc, pgRun, pgMessages, pgTools, pgNextId, pgLlmCalls, pgResult>>

(***************************************************************************)
(* controllers/llmController.py: LLMController.ask_question                *)
(***************************************************************************)
VARIABLES
    llmPc,         \* "idle", the step about to run, "returned" or "raised"
    llmQuery,      \* query
    llmHistory,    \* chat_history
    llmDb,         \* whether chat_history_controller is set
    llmEmail,      \* whether user_email is set
    llmChatId,     \* chat_id
    llmSaved,      \* the roles of the messages this request has saved
    llmTried,      \* the roles of the messages it asked the session to save
    llmAgentInput, \* agent_input
    llmInvoked,    \* whether root_agent.ainvoke was called
    llmResult      \* what ask_question returned or raised

llmVars == <<llmPc, llmQuery, llmHistory, llmDb, llmEmail, llmChatId, llmSaved,
             llmTried, llmAgentInput, llmInvoked, llmResult>>

(***************************************************************************)
(* routes/flightRoute.py: analyze_flights                                  *)
(***************************************************************************)
VARIABLES
    anPc,        \* "idle", "query", "responded"
    anRequest,   \* the query parameters
    anRows,      \* rows, the result of cur.fetchall()
    anFetched,   \* whether cur.fetchall() answered
    anResponse   \* the status and detail the client receives

anVars == <<anPc, anRequest, anRows, anFetched, anResponse>>

(***************************************************************************)
(* simplified_mcp_server.py: the STDIO loop of SimplifiedMCP.run           *)
(***************************************************************************)
VARIABLES
    stdioPc,     \* "reading", "ended" or "crashed"
    stdioRead,   \* the lines read that were not blank
    stdout       \* the lines printed

stdioVars == <<stdioPc, stdioRead, stdout>>

vars == <<pollVars, rateVars, amVars, rootVars, miniVars, pfVars, wtVars, mcpVars,
          chVars, ucVars, frVars,
      pgVars,
      llmVars,
      anVars,
      stdioVars>>

\* what the actions of one component leave alone
notPoll ==
    <<rateVars, amVars, rootVars, miniVars, pfVars, wtVars, mcpVars, chVars, ucVars,
      frVars,
      pgVars,
      llmVars,
      anVars,
      stdioVars>>
notRate ==
    <<pollVars, amVars, rootVars, miniVars, pfVars, wtVars, mcpVars, chVars, ucVars,
      frVars,
      pgVars,
      llmVars,
      anVars,
      stdioVars>>
notAmadeus ==
    <<pollVars, rootVars, miniVars, pfVars, wtVars, mcpVars, chVars, ucVars,
      frVars,
      pgVars,
      llmVars,
      anVars,
      stdioVars>>
notRoot ==
    <<pollVars, rateVars, amVars, miniVars, pfVars, wtVars, mcpVars, chVars, ucVars,
      frVars,
      pgVars,
      llmVars,
      anVars,
      stdioVars>>
notMini ==
    <<pollVars, rateVars, amVars, rootVars, pfVars, wtVars, mcpVars, chVars, ucVars,
      frVars,
      pgVars,
      llmVars,
      anVars,
      stdioVars>>
notWt ==
    <<pollVars, rateVars, amVars, rootVars, miniVars, pfVars, mcpVars, chVars, ucVars,
      frVars,
      pgVars,
      llmVars,
      anVars,
      stdioVars>>
notMcp ==
    <<pollVars, rateVars, amVars, rootVars, miniVars, pfVars, wtVars, chVars, ucVars,
      frVars,
      pgVars,
      llmVars,
      anVars,
      stdioVars>>
notCh ==
    <<pollVars, rateVars, amVars, rootVars, miniVars, pfVars, wtVars, mcpVars, ucVars,
      frVars,
      pgVars,
      llmVars,
      anVars,
      stdioVars>>
notUc ==
    <<pollVars, rateVars, amVars, rootVars, miniVars, pfVars, wtVars, mcpVars, chVars,
      frVars,
      pgVars,
      llmVars,
      anVars,
      stdioVars>>
notFr ==
    <<pollVars, rateVars, amVars, rootVars, miniVars, pfVars, wtVars, mcpVars, chVars,
      ucVars,
      pgVars,
      llmVars,
      anVars,
      stdioVars>>
notPf ==
    <<pollVars, rateVars, amVars, rootVars, miniVars, wtVars, mcpVars, chVars, ucVars,
      frVars,
      pgVars,
      llmVars,
      anVars,
      stdioVars>>
notPg ==
    <<pollVars, rateVars, amVars, rootVars, miniVars, pfVars,
      wtVars, mcpVars, chVars, ucVars, frVars,
      llmVars,
      anVars,
      stdioVars>>
notLlm ==
    <<pollVars, rateVars, amVars, rootVars, miniVars, pfVars,
      wtVars, mcpVars, chVars, ucVars, frVars, pgVars,
      anVars,
      stdioVars>>
notAn ==
    <<pollVars, rateVars, amVars, rootVars, miniVars, pfVars,
      wtVars, mcpVars, chVars, ucVars, frVars, pgVars, llmVars,
      stdioVars>>
notStdio ==
    <<pollVars, rateVars, amVars, rootVars, miniVars, pfVars,
      wtVars, mcpVars, chVars, ucVars, frVars, pgVars, llmVars, anVars>>

\* the local variable `data` before its first assignment
Unbound == [bound |-> FALSE]

SearchIds == {"sid-a", "sid-b"}

\* the value of settings.MAX_POLLING_ATTEMPTS: the default, or an override
\* read from the environment / .env by pydantic BaseSettings
AttemptLimits == (0..MaxSmallLimit) \cup {MAX_POLLING_ATTEMPTS}

\* data.get("data", {}).get("context", {}).get("status") of a 200 response
PollStatuses == {"complete", "incomplete", "none"}

\* a parsed 200 response: which poll produced it and the status it carries
PollResponse(n, st) == [bound |-> TRUE, seq |-> n, status |-> st]

InitPoll ==
    /\ pollPc = "idle"
    /\ searchId = "none"
    /\ maxAttempts = 0
    /\ attempt = 0
    /\ pollData = Unbound
    /\ pollRequests = 0
    /\ pollResult = [kind |-> "none"]

\* entry of fetch_incomplete_search up to the first evaluation of the loop
\* condition
FetchIncompleteSearch(sid, limit) ==
    /\ pollPc \in {"idle", "returned", "raised"}
    /\ pollPc' = "polling"
    /\ searchId' = sid
    /\ maxAttempts' = limit
    /\ attempt' = 0
    /\ pollData' = Unbound
    /\ pollRequests' = 0
    /\ pollResult' = [kind |-> "none"]
    /\ UNCHANGED notPoll

\* PollOk with the `if status == "complete": return data` test dropped
PollOkIgnoresComplete(st) ==
    /\ pollPc = "polling"
    /\ attempt < maxAttempts
    /\ attempt' = attempt + 1
    /\ pollRequests' = pollRequests + 1
    /\ pollData' = PollResponse(attempt + 1, st)
    /\ pollPc' = "polling"
    /\ pollResult' = pollResult
    /\ UNCHANGED <<searchId, maxAttempts>>
    /\ UNCHANGED notPoll

\* one iteration of `while attempt < max_attempts`, the GET answered 200
PollOk(st) ==
    /\ pollPc = "polling"
    /\ attempt < maxAttempts
    /\ attempt' = attempt + 1
    /\ pollRequests' = pollRequests + 1
    /\ pollData' = PollResponse(attempt + 1, st)
    /\ IF st = "complete"
         THEN /\ pollPc' = "returned"
              /\ pollResult' = [kind |-> "value", data |-> PollResponse(attempt + 1, st)]
         ELSE /\ pollPc' = "polling"
              /\ pollResult' = pollResult
    /\ UNCHANGED <<searchId, maxAttempts>>
    /\ UNCHANGED notPoll

\* one iteration, the GET answered with a status code other than 200:
\* HTTPException(status_code=response.status_code) is raised and re-raised
PollHttpError(code) ==
    /\ pollPc = "polling"
    /\ attempt < maxAttempts
    /\ attempt' = attempt + 1
    /\ pollRequests' = pollRequests + 1
    /\ pollPc' = "raised"
    /\ pollResult' = [kind |-> "HTTPException", status_code |-> code]
    /\ UNCHANGED <<searchId, maxAttempts, pollData>>
    /\ UNCHANGED notPoll

\* one iteration, the GET timed out: httpx.TimeoutException -> HTTP 504
PollTimeout ==
    /\ pollPc = "polling"
    /\ attempt < maxAttempts
    /\ attempt' = attempt + 1
    /\ pollRequests' = pollRequests + 1
    /\ pollPc' = "raised"
    /\ pollResult' = [kind |-> "HTTPException", status_code |-> 504]
    /\ UNCHANGED <<searchId, maxAttempts, pollData>>
    /\ UNCHANGED notPoll

\* the loop condition is false: `return data`; reading `data` before any
\* assignment raises UnboundLocalError, re-raised by `except Exception`
PollExhausted ==
    /\ pollPc = "polling"
    /\ ~(attempt < maxAttempts)
    /\ IF pollData = Unbound
         THEN /\ pollPc' = "raised"
              /\ pollResult' = [kind |-> "UnboundLocalError"]
         ELSE /\ pollPc' = "returned"
              /\ pollResult' = [kind |-> "value", data |-> pollData]
    /\ UNCHANGED <<searchId, maxAttempts, attempt, pollData, pollRequests>>
    /\ UNCHANGED notPoll

PollStep ==
    \/ \E st \in PollStatuses : PollOk(st)
    \/ \E code \in {429, 500} : PollHttpError(code)
    \/ PollTimeout
    \/ PollExhausted

NextPoll ==
    \/ \E sid \in SearchIds, limit \in AttemptLimits : FetchIncompleteSearch(sid, limit)
    \/ \E st \in PollStatuses : PollOk(st)
    \/ \E code \in {429, 500} : PollHttpError(code)
    \/ PollTimeout
    \/ PollExhausted

(***************************************************************************)
(* RateLimiter                                                             *)
(***************************************************************************)
Max(a, b) == IF a >= b THEN a ELSE b
Min(a, b) == IF a <= b THEN a ELSE b

InitRate ==
    /\ now = 1
    /\ call_timestamps = <<>>
    /\ last_429_time = NoTime
    /\ backoff_time = BackoffInitial
    /\ wait = 0

\* [t for t in self.call_timestamps if now - t <= self.time_frame]
FilterStamps(ts, t0) == SelectSeq(ts, LAMBDA t : t0 - t <= time_frame)

\* WaitTime without the back-off branch
WaitTimeNoBackoff(ts, l429, b, t0) ==
    IF Len(FilterStamps(ts, t0)) >= max_calls
      THEN Max(0, time_frame - (t0 - FilterStamps(ts, t0)[1]))
      ELSE 0

\* the value wait_time() returns at time t0
WaitTime(ts, l429, b, t0) ==
    IF l429 # NoTime /\ l429 # 0 /\ t0 - l429 < b
      THEN b - (t0 - l429)
      ELSE IF Len(FilterStamps(ts, t0)) >= max_calls
             THEN Max(0, time_frame - (t0 - FilterStamps(ts, t0)[1]))
             ELSE 0

\* NextBackoff growing linearly
NextBackoffLinear(b) == Min(b + BackoffInitial, BackoffCap)

\* self.backoff_time = min(self.backoff_time * 2, 60)
NextBackoff(b) == Min(b * 2, BackoffCap)

\* RateLimiter.wait_time()
wait_time ==
    /\ call_timestamps' = FilterStamps(call_timestamps, now)
    /\ wait' = WaitTime(call_timestamps, last_429_time, backoff_time, now)
    /\ UNCHANGED <<now, last_429_time, backoff_time>>

\* RateLimiter.record_call()
record_call ==
    /\ Len(call_timestamps) < MaxStamps
    /\ call_timestamps' = Append(call_timestamps, now)
    /\ UNCHANGED <<now, last_429_time, backoff_time, wait>>

\* RateLimiter.record_429()
record_429 ==
    /\ last_429_time' = now
    /\ backoff_time' = NextBackoff(backoff_time)
    /\ UNCHANGED <<now, call_timestamps, wait>>

\* a second passes
RateTick ==
    /\ now < MaxRateTime
    /\ now' = now + 1
    /\ UNCHANGED <<call_timestamps, last_429_time, backoff_time, wait>>
    /\ UNCHANGED notRate

\* the methods of one RateLimiter called in any order
RateWaitTime == wait_time /\ UNCHANGED notRate
RateRecordCall == record_call /\ UNCHANGED notRate
RateRecord429 == record_429 /\ UNCHANGED notRate

NextRate ==
    \/ RateWaitTime
    \/ RateRecordCall
    \/ RateRecord429
    \/ RateTick

(***************************************************************************)
(* perform_flight_search_api and the requests it sends                     *)
(***************************************************************************)
\* city_key values: "boston" is in common_cities, "zagreb" is not
Cities == {"boston", "zagreb"}
CommonCities == {"boston"}

NoParams == [from |-> "", to |-> "", departureDate |-> "", adultsOk |-> TRUE]

\* the params dict: a missing key and an empty value are both falsy for
\* `not params.get(k)`; adultsOk says whether int(params["adults"]) parses
ParamSets ==
    [from : Cities \cup {""}, to : Cities \cup {""},
     departureDate : {"", "2025-05-01"}, adultsOk : BOOLEAN]

\* a required_keys list without departureDate
MissingWithoutDate(params) ==
    {k \in {"from", "to"} : params[k] = ""}

\* missing = [k for k in required_keys if not params.get(k)]
Missing(params) ==
    {k \in {"from", "to", "departureDate"} : params[k] = ""}

\* HTTP outcomes of one request: 200, 429, or anything that raises inside
\* the try block (raise_for_status, a transport error, a malformed body)
HttpOutcomes == {"ok", "429", "error"}

InitAmadeus ==
    /\ amPc = "idle"
    /\ amParams = NoParams
    /\ hasToken = FALSE
    /\ iataCache = {}
    /\ amResult = "none"

\* wait = rate_limiter.wait_time(); if wait > 0: time.sleep(wait);
\* rate_limiter.record_call(); the request leaves at time now'
SendRequest ==
    /\ Len(FilterStamps(call_timestamps, now)) < MaxFlowStamps
    /\ now' = now + WaitTime(call_timestamps, last_429_time, backoff_time, now)
    /\ now' <= MaxTime
    /\ call_timestamps' = Append(FilterStamps(call_timestamps, now), now')
    /\ UNCHANGED <<last_429_time, backoff_time, wait>>

\* the response arrives `latency` seconds later; a 429 calls record_429()
ReceiveResponse(latency, outcome) ==
    /\ now' = now + latency
    /\ now' <= MaxTime
    /\ IF outcome = "429"
         THEN /\ last_429_time' = now'
              /\ backoff_time' = NextBackoff(backoff_time)
         ELSE UNCHANGED <<last_429_time, backoff_time>>
    /\ UNCHANGED <<call_timestamps, wait>>

\* perform_flight_search_api(params) with a required parameter missing
SearchMissing(params) ==
    /\ amPc = "idle"
    /\ Missing(params) # {}
    /\ amResult' = "error_missing"
    /\ UNCHANGED <<amPc, amParams, hasToken, iataCache, rateVars>>
    /\ UNCHANGED notAmadeus

\* perform_flight_search_api(params) up to the token request
\* (get_amadeus_access_token until httpx.post)
SearchStart(params) ==
    /\ amPc = "idle"
    /\ Missing(params) = {}
    /\ amParams' = params
    /\ amResult' = "none"
    /\ amPc' = "token_sent"
    /\ SendRequest
    /\ UNCHANGED <<hasToken, iataCache>>
    /\ UNCHANGED notAmadeus

\* get_amadeus_access_token from the response on
TokenResponse(latency, outcome) ==
    /\ amPc = "token_sent"
    /\ ReceiveResponse(latency, outcome)
    /\ IF outcome = "ok"
         THEN /\ hasToken' = TRUE
              /\ amPc' = "iata_from"
              /\ amResult' = amResult
         ELSE /\ hasToken' = hasToken
              /\ IF hasToken
                   THEN /\ amPc' = "iata_from"
                        /\ amResult' = amResult
                   ELSE /\ amPc' = "idle"
                        /\ amResult' = "error_failed"
    /\ amParams' = IF amPc' = "idle" THEN NoParams ELSE amParams
    /\ UNCHANGED iataCache
    /\ UNCHANGED notAmadeus

\* the city looked up at position pc
LookupCity(pc) == IF pc \in {"iata_from", "iata_from_sent"} THEN amParams.from ELSE amParams.to

\* the position after the lookup at position pc
AfterLookup(pc) == IF pc \in {"iata_from", "iata_from_sent"} THEN "iata_to" ELSE "search"

\* get_iata_code answered from IATA_CODE_CACHE or common_cities
IataLocal ==
    /\ amPc \in {"iata_from", "iata_to"}
    /\ LookupCity(amPc) \in iataCache \cup CommonCities
    /\ iataCache' = iataCache \cup {LookupCity(amPc)}
    /\ amPc' = AfterLookup(amPc)
    /\ UNCHANGED <<amParams, hasToken, amResult, rateVars>>
    /\ UNCHANGED notAmadeus

\* get_iata_code up to httpx.get
IataSend ==
    /\ amPc \in {"iata_from", "iata_to"}
    /\ LookupCity(amPc) \notin iataCache \cup CommonCities
    /\ SendRequest
    /\ amPc' = IF amPc = "iata_from" THEN "iata_from_sent" ELSE "iata_to_sent"
    /\ UNCHANGED <<amParams, hasToken, iataCache, amResult>>
    /\ UNCHANGED notAmadeus

\* get_iata_code from the response on: only a 200 fills the cache
IataResponse(latency, outcome) ==
    /\ amPc \in {"iata_from_sent", "iata_to_sent"}
    /\ ReceiveResponse(latency, outcome)
    /\ iataCache' = IF outcome = "ok" THEN iataCache \cup {LookupCity(amPc)} ELSE iataCache
    /\ amPc' = AfterLookup(amPc)
    /\ UNCHANGED <<amParams, hasToken, amResult>>
    /\ UNCHANGED notAmadeus

\* adults = int(...) raises ValueError: caught by the outer except
SearchBadAdults ==
    /\ amPc = "search"
    /\ ~amParams.adultsOk
    /\ amPc' = "idle"
    /\ amResult' = "error_failed"
    /\ amParams' = NoParams
    /\ UNCHANGED <<hasToken, iataCache, rateVars>>
    /\ UNCHANGED notAmadeus

\* the body is built and the flight-offers request is sent
SearchSend ==
    /\ amPc = "search"
    /\ amParams.adultsOk
    /\ SendRequest
    /\ amPc' = "search_sent"
    /\ UNCHANGED <<amParams, hasToken, iataCache, amResult>>
    /\ UNCHANGED notAmadeus

\* perform_flight_search_api from the flight-offers response on
SearchResponse(latency, outcome) ==
    /\ amPc = "search_sent"
    /\ ReceiveResponse(latency, outcome)
    /\ amPc' = "idle"
    /\ amResult' = CASE outcome = "ok" -> "flight"
                      [] outcome = "429" -> "error_rate_limit"
                      [] OTHER -> "error_failed"
    /\ amParams' = NoParams
    /\ UNCHANGED <<hasToken, iataCache>>
    /\ UNCHANGED notAmadeus

\* time passes between two flight searches
AmTick ==
    /\ amPc = "idle"
    /\ now < MaxTime
    /\ now' = now + 1
    /\ UNCHANGED <<call_timestamps, last_429_time, backoff_time, wait, amVars>>
    /\ UNCHANGED notAmadeus

NextAmadeus ==
    \/ \E params \in ParamSets : SearchMissing(params)
    \/ \E params \in ParamSets : SearchStart(params)
    \/ \E d \in 0..MaxLatency, o \in HttpOutcomes : TokenResponse(d, o)
    \/ IataLocal
    \/ IataSend
    \/ \E d \in 0..MaxLatency, o \in HttpOutcomes : IataResponse(d, o)
    \/ SearchBadAdults
    \/ SearchSend
    \/ \E d \in 0..MaxLatency, o \in HttpOutcomes : SearchResponse(d, o)
    \/ AmTick

(***************************************************************************)
(* The travel graph: root_agent_node, the conditional edge, the sub-agents *)
(***************************************************************************)
\* A user input is the set of phrases it contains.  Each phrase stands for
\* one alternative of the regular expressions of root_agent_node; "city"
\* is a place name that extract_multiple_locations finds.
Phrases == {"weather", "should i pack", "flight", "hotel", "food", "trip", "book", "pack", "city"}

\* re.search of an alternation of literals: some alternative occurs in the
\* text; the text "should i pack" contains the literal "pack"
Occurs(text, literals) ==
    \/ text \cap literals # {}
    \/ "pack" \in literals /\ "should i pack" \in text

\* any(re.search(pattern, user_input, re.IGNORECASE) for pattern in weather_patterns)
IsWeatherQuery(text) == Occurs(text, {"weather", "should i pack"})

\* re.search(r"(hotel|flight|itinerary|trip|travel plan|book|reserve)", user_input)
HasTravelAspects(text) == Occurs(text, {"hotel", "flight", "trip", "book"})

\* weather_tool.extract_multiple_locations(user_input) is not empty
HasLocations(text) == Occurs(text, {"city"})

\* the keyword routing chain; "llm" when no expression matches
KeywordRoute(text) ==
    CASE Occurs(text, {"flight"}) -> "planning"
      [] Occurs(text, {"hotel"}) -> "planning"
      [] Occurs(text, {"food"}) -> "planning"
      [] Occurs(text, {"trip"}) -> "planning"
      [] Occurs(text, {"pack"}) -> "pre_travel"
      [] OTHER -> "llm"

\* response.content.lower().strip() of the fallback classifier; "other" is
\* any text that is not a key of agent_mapping
LlmReplies == {"explore", "in_travel", "planning", "post_travel", "pre_travel", "other"}

\* agent_mapping.get(response_text, "explore_agent")
AgentMapping(response_text) ==
    CASE response_text = "explore" -> "explore_agent"
      [] response_text = "in_travel" -> "in_travel_agent"
      [] response_text = "planning" -> "planning_agent"
      [] response_text = "post_travel" -> "post_travel_agent"
      [] response_text = "pre_travel" -> "pre_travel_agent"
      [] OTHER -> "explore_agent"

\* the path map of add_conditional_edges("root_agent", ...)
GraphTargets == {"explore_agent", "pre_travel_agent", "planning_agent"}

\* outcomes of the weather calls inside root_agent_node's try block
WeatherOutcomes == {"ok", "get_raises", "format_raises"}

\* contents of assistant messages
WeatherText == "weather report"
WeatherErrorText == "weather service trouble"
SubAgentOutputs == {"answer a", "answer b"}

InitRoot ==
    /\ rootPc = "idle"
    /\ user_input = {}
    /\ messages = <<>>
    /\ current_agent = "root_agent"
    /\ is_weather_response = FALSE
    /\ weather_data = FALSE

\* Agent.invoke / Agent.ainvoke up to the entry point of the graph.  The
\* module defines TravelAgentState twice and the graph is built from the
\* later class, which has no is_weather_response and no weather_data key:
\* neither is a channel of the graph, so the state handed to root_agent_node
\* carries neither.
AgentInvoke(text) ==
    /\ rootPc \in {"idle", "END", "failed"}
    /\ rootPc' = "root_agent"
    /\ user_input' = text
    /\ messages' = <<>>
    /\ current_agent' = "root_agent"
    /\ is_weather_response' = FALSE
    /\ weather_data' = FALSE
    /\ UNCHANGED notRoot

\* root_agent_node answers a weather-only query itself
RootAgentWeather(outcome) ==
    /\ rootPc = "root_agent"
    /\ IsWeatherQuery(user_input)
    /\ HasLocations(user_input)
    /\ ~HasTravelAspects(user_input)
    /\ weather_data' = IF outcome = "get_raises" THEN weather_data ELSE TRUE
    /\ is_weather_response' = TRUE
    /\ messages' = <<[role |-> "assistant",
                      content |-> IF outcome = "ok" THEN WeatherText ELSE WeatherErrorText]>>
    /\ current_agent' = "explore_agent"
    /\ rootPc' = "route"
    /\ UNCHANGED user_input
    /\ UNCHANGED notRoot

\* root_agent_node routes by keyword or by the fallback classifier
RootAgentRoute(outcome, reply) ==
    /\ rootPc = "root_agent"
    /\ ~(IsWeatherQuery(user_input) /\ HasLocations(user_input) /\ ~HasTravelAspects(user_input))
    /\ weather_data' =
          IF IsWeatherQuery(user_input) /\ HasLocations(user_input) /\ outcome # "get_raises"
            THEN TRUE ELSE weather_data
    /\ current_agent' =
          IF KeywordRoute(user_input) = "llm"
            THEN AgentMapping(reply)
            ELSE AgentMapping(KeywordRoute(user_input))
    /\ rootPc' = "route"
    /\ UNCHANGED <<user_input, messages, is_weather_response>>
    /\ UNCHANGED notRoot

\* llm.invoke raises inside root_agent_node: the graph run fails
RootAgentLlmRaises ==
    /\ rootPc = "root_agent"
    /\ ~(IsWeatherQuery(user_input) /\ HasLocations(user_input) /\ ~HasTravelAspects(user_input))
    /\ KeywordRoute(user_input) = "llm"
    /\ rootPc' = "failed"
    /\ UNCHANGED <<user_input, messages, current_agent, is_weather_response, weather_data>>
    /\ UNCHANGED notRoot

\* the conditional edge: lambda state: state["current_agent"] looked up in
\* the path map; a value that is not a key fails the run
ConditionalEdge ==
    /\ rootPc = "route"
    /\ rootPc' = IF current_agent \in GraphTargets THEN current_agent ELSE "failed"
    /\ UNCHANGED <<user_input, messages, current_agent, is_weather_response, weather_data>>
    /\ UNCHANGED notRoot

\* explore_agent_node, pre_travel_agent_node, planning_agent_node as the
\* graph binds them: the later definitions of the module, which replace the
\* earlier ones that returned at once after a direct weather answer.  They
\* invoke the sub-agent and append its answer whatever root_agent_node did.
SubAgentNode(output) ==
    /\ rootPc \in GraphTargets
    /\ messages' = Append(messages, [role |-> "assistant", content |-> output])
    /\ rootPc' = "END"
    /\ UNCHANGED <<user_input, current_agent, is_weather_response, weather_data>>
    /\ UNCHANGED notRoot

\* planning_agent_node finds no AIMessage in the planning graph's result
PlanningNoAnswer ==
    /\ rootPc = "planning_agent"
    /\ rootPc' = "END"
    /\ UNCHANGED <<user_input, messages, current_agent, is_weather_response, weather_data>>
    /\ UNCHANGED notRoot

\* the sub-agent raises: the graph run fails
SubAgentRaises ==
    /\ rootPc \in GraphTargets
    /\ rootPc' = "failed"
    /\ UNCHANGED <<user_input, messages, current_agent, is_weather_response, weather_data>>
    /\ UNCHANGED notRoot

NextRoot ==
    \/ \E text \in SUBSET Phrases : AgentInvoke(text)
    \/ \E o \in WeatherOutcomes : RootAgentWeather(o)
    \/ \E o \in WeatherOutcomes, reply \in LlmReplies : RootAgentRoute(o, reply)
    \/ RootAgentLlmRaises
    \/ ConditionalEdge
    \/ \E output \in SubAgentOutputs : SubAgentNode(output)
    \/ PlanningNoAnswer
    \/ SubAgentRaises

(***************************************************************************)
(* Mini-agents                                                             *)
(***************************************************************************)
\* what a wrapped tool does: returns data, returns {"error": ...}, raises
ToolOutcomes == {"data", "error", "raises"}

\* A returned dict, by the keys the callers look at: a top-level "error"
\* key, the "status" value ("absent" without the key), an "error" inside
\* "api_data", and whether search data is present.
Dict(error, status, api_error, payload) ==
    [raised |-> FALSE, error |-> error, status |-> status,
     api_error |-> api_error, payload |-> payload]

\* the call propagated an exception instead of returning
Raised == [raised |-> TRUE, error |-> FALSE, status |-> "absent",
           api_error |-> FALSE, payload |-> FALSE]

\* {"error": ...}
ErrorOnly == Dict(TRUE, "absent", FALSE, FALSE)

\* the error_result literal of the hotel, restaurant, attractions and
\* itinerary agents
ErrorResult == Dict(TRUE, "error", TRUE, FALSE)

\* the complete_result literal built from a tool result
CompleteResult(outcome) ==
    Dict(FALSE, IF outcome = "error" THEN "error" ELSE "success",
         outcome = "error", outcome = "data")

NoCall == [agent |-> "none"]
NoResult == [raised |-> FALSE, error |-> FALSE, status |-> "none",
             api_error |-> FALSE, payload |-> FALSE]

\* FlightAgentResult without the try/except around the body
FlightAgentNoExcept(kind, outcome) ==
    IF kind = "natural" THEN ErrorOnly
    ELSE CASE outcome = "raises" -> Raised
           [] outcome = "error" -> ErrorOnly
           [] OTHER -> Dict(FALSE, "absent", FALSE, TRUE)

\* flight_search_agent: kind says whether the input matches
\* from=.*&to=.*&departureDate=
FlightAgentResult(kind, outcome) ==
    IF kind = "natural" THEN ErrorOnly
    ELSE CASE outcome = "raises" -> ErrorOnly
           [] outcome = "error" -> ErrorOnly
           [] OTHER -> Dict(FALSE, "absent", FALSE, TRUE)

\* hotel_search_agent: kind says whether the input matches
\* city=.*&checkInDate=.*&checkOutDate=.*&adults=
HotelAgentResult(kind, outcome) ==
    IF kind = "natural" THEN ErrorResult
    ELSE IF outcome = "raises" THEN ErrorResult
    ELSE CompleteResult(outcome)

\* restaurant inputs: "location=" in input_str; a natural sentence in which
\* (?:in|at|near|around)\s+... finds a location; one in which it does not
RestaurantInputs == {"location=Paris", "sushi in Rome", "sushi"}
RestaurantLocated(input) == input \in {"location=Paris", "sushi in Rome"}

\* restaurant_search_agent on a cache miss
RestaurantAgentResult(input, outcome) ==
    IF ~RestaurantLocated(input) THEN ErrorResult
    ELSE IF outcome = "raises" THEN ErrorResult
    ELSE CompleteResult(outcome)

\* attractions inputs: location given, location empty, no "location="
AttractionInputs == {"location=Paris", "location=Rome", "location=", "museums"}
AttractionLocation(input) ==
    CASE input = "location=Paris" -> "Paris"
      [] input = "location=Rome" -> "Rome"
      [] OTHER -> ""

\* search_attractions(params): what it returns, as a tool outcome; both
\* an error dict and an exception of explore_places become {"error": ...}
SearchAttractions(location, cache, outcome) ==
    IF location = "" THEN "error"
    ELSE IF location \in cache THEN "data"
    ELSE IF outcome = "data" THEN "data" ELSE "error"

\* attractions_search_agent
AttractionsAgentResult(input, cache, outcome) ==
    IF input = "museums" THEN ErrorResult
    ELSE CompleteResult(SearchAttractions(AttractionLocation(input), cache, outcome))

\* itinerary inputs: structured says "destination=" and "startDate=" occur;
\* complete: destination, startDate and endDate are present and not empty;
\* travelersOk: int(params["travelers"]) parses; datesOk: both dates parse
\* with %Y-%m-%d; origin: an origin is given
ItineraryInputs ==
    [structured : BOOLEAN, complete : BOOLEAN, travelersOk : BOOLEAN,
     datesOk : BOOLEAN, origin : BOOLEAN]

\* the four searches of collect_travel_data and the LLM call
ItineraryOutcomes ==
    [flight : ToolOutcomes, hotel : ToolOutcomes, attractions : ToolOutcomes,
     restaurants : ToolOutcomes, llm : {"json", "text", "raises"}]

\* collect_travel_data raises: a search it reaches raises
CollectRaises(input, o) ==
    \/ input.origin /\ o.flight = "raises"
    \/ o.hotel = "raises"
    \/ o.attractions = "raises"
    \/ o.restaurants = "raises"

\* build_itinerary(params) returns a dict with "error"
BuildItineraryFails(input, o) ==
    \/ ~input.complete
    \/ ~input.travelersOk
    \/ CollectRaises(input, o)
    \/ ~input.datesOk

\* itinerary_agent
ItineraryAgentResult(input, o) ==
    IF ~input.structured THEN ErrorOnly
    ELSE IF BuildItineraryFails(input, o) THEN ErrorResult
    ELSE Dict(FALSE, "success", FALSE, TRUE)

InitMini ==
    /\ miniCall = NoCall
    /\ miniResult = NoResult
    /\ RESTAURANT_CACHE = [input \in {} |-> NoResult]
    /\ ATTRACTIONS_CACHE = {}

flight_search_agent(kind, outcome) ==
    /\ miniCall' = [agent |-> "flight", parse_failed |-> kind = "natural",
                    api_failed |-> kind = "structured" /\ outcome # "data",
                    raised_inside |-> FALSE]
    /\ miniResult' = FlightAgentResult(kind, outcome)
    /\ UNCHANGED <<RESTAURANT_CACHE, ATTRACTIONS_CACHE>>
    /\ UNCHANGED notMini

hotel_search_agent(kind, outcome) ==
    /\ miniCall' = [agent |-> "hotel", parse_failed |-> kind = "natural",
                    api_failed |-> kind = "structured" /\ outcome # "data",
                    raised_inside |-> FALSE]
    /\ miniResult' = HotelAgentResult(kind, outcome)
    /\ UNCHANGED <<RESTAURANT_CACHE, ATTRACTIONS_CACHE>>
    /\ UNCHANGED notMini

\* restaurant_search_agent answered from RESTAURANT_CACHE
RestaurantCached(input) ==
    /\ input \in DOMAIN RESTAURANT_CACHE
    /\ miniCall' = [agent |-> "restaurant", parse_failed |-> FALSE,
                    api_failed |-> FALSE, raised_inside |-> FALSE, from_cache |-> TRUE]
    /\ miniResult' = RESTAURANT_CACHE[input]
    /\ UNCHANGED <<RESTAURANT_CACHE, ATTRACTIONS_CACHE>>
    /\ UNCHANGED notMini

\* restaurant_search_agent on a cache miss: a complete_result is cached,
\* an error_result is not
restaurant_search_agent(input, outcome) ==
    /\ input \notin DOMAIN RESTAURANT_CACHE
    /\ miniCall' = [agent |-> "restaurant", parse_failed |-> ~RestaurantLocated(input),
                    api_failed |-> RestaurantLocated(input) /\ outcome # "data",
                    raised_inside |-> FALSE, from_cache |-> FALSE]
    /\ miniResult' = RestaurantAgentResult(input, outcome)
    /\ RESTAURANT_CACHE' =
          IF RestaurantLocated(input) /\ outcome # "raises"
            THEN [i \in DOMAIN RESTAURANT_CACHE \cup {input} |->
                    IF i = input THEN CompleteResult(outcome) ELSE RESTAURANT_CACHE[i]]
            ELSE RESTAURANT_CACHE
    /\ UNCHANGED ATTRACTIONS_CACHE
    /\ UNCHANGED notMini

attractions_search_agent(input, outcome) ==
    /\ miniCall' = [agent |-> "attractions",
                    parse_failed |-> AttractionLocation(input) = "",
                    api_failed |-> /\ AttractionLocation(input) # ""
                                   /\ AttractionLocation(input) \notin ATTRACTIONS_CACHE
                                   /\ outcome # "data",
                    raised_inside |-> FALSE]
    /\ miniResult' = AttractionsAgentResult(input, ATTRACTIONS_CACHE, outcome)
    /\ ATTRACTIONS_CACHE' =
          IF AttractionLocation(input) # "" /\ outcome = "data"
            THEN ATTRACTIONS_CACHE \cup {AttractionLocation(input)}
            ELSE ATTRACTIONS_CACHE
    /\ UNCHANGED RESTAURANT_CACHE
    /\ UNCHANGED notMini

\* itinerary_agent; the searches run only for a structured, complete input
\* with a parsable travelers value, the LLM only if no search raised
itinerary_agent(input, o) ==
    /\ miniCall' =
          [agent |-> "itinerary",
           parse_failed |-> ~input.structured \/ ~input.complete \/ ~input.travelersOk,
           api_failed |-> /\ input.structured /\ input.complete /\ input.travelersOk
                          /\ \/ input.origin /\ o.flight # "data"
                             \/ o.hotel # "data"
                             \/ o.attractions # "data"
                             \/ o.restaurants # "data"
                             \/ ~CollectRaises(input, o) /\ o.llm = "raises",
           raised_inside |-> /\ input.structured /\ input.complete /\ input.travelersOk
                             /\ (CollectRaises(input, o) \/ ~input.datesOk)]
    /\ miniResult' = ItineraryAgentResult(input, o)
    /\ UNCHANGED <<RESTAURANT_CACHE, ATTRACTIONS_CACHE>>
    /\ UNCHANGED notMini

NextMini ==
    \/ \E kind \in {"structured", "natural"}, o \in ToolOutcomes : flight_search_agent(kind, o)
    \/ \E kind \in {"structured", "natural"}, o \in ToolOutcomes : hotel_search_agent(kind, o)
    \/ \E input \in RestaurantInputs : RestaurantCached(input)
    \/ \E input \in RestaurantInputs, o \in ToolOutcomes : restaurant_search_agent(input, o)
    \/ \E input \in AttractionInputs, o \in ToolOutcomes : attractions_search_agent(input, o)
    \/ \E input \in ItineraryInputs, o \in ItineraryOutcomes : itinerary_agent(input, o)

(***************************************************************************)
(* FlightController.process_flight_data                                    *)
(***************************************************************************)
\* count=5, the default of _generate_mock_flights
MockCount == 5

Airports == {"BOS", "PARI"}
LegIdSet == {"leg-1", "leg-2"}

\* sequences over S of length at most n
SeqUpTo(S, n) == UNION {[1..k -> S] : k \in 0..n}

\* An itinerary of the response: its legIds, and whether reading its price
\* raises (price not a dict, or a raw price the :.2f format rejects).
Itineraries == [legIds : SeqUpTo(LegIdSet, MaxLegIds), bad : BOOLEAN]

\* The legs of the response, by id: "absent" when no leg has the id, "bad"
\* when building a Flight from the leg raises (durationInMinutes not a
\* number, a field that is not a dict, a value the Flight schema rejects).
LegTables == [LegIdSet -> {"absent", "good", "bad"}]

\* a response: dict says data and data["data"] answer .get
FlightData == [dict : BOOLEAN, itineraries : SeqUpTo(Itineraries, MaxItineraries),
               legs : LegTables]

NoData == [dict |-> FALSE, itineraries |-> <<>>, legs |-> [l \in LegIdSet |-> "absent"]]

\* the Flight built from a leg
FlightOf(leg_id, source, destination) ==
    [mock |-> FALSE, leg |-> leg_id, origin_id |-> source, destination_id |-> destination]

\* _generate_mock_flights(source, destination)
GenerateMockFlights(source, destination) ==
    [i \in 1..MockCount |->
        [mock |-> TRUE, leg |-> "", origin_id |-> source, destination_id |-> destination]]

\* the inner loop over leg_ids, from position j with flights collected so
\* far; the result says whether an exception ended the loop
RECURSIVE LegLoop(_, _, _, _, _, _)
LegLoop(leg_ids, j, legs, source, destination, flights) ==
    IF j > Len(leg_ids) THEN [raised |-> FALSE, flights |-> flights]
    ELSE CASE legs[leg_ids[j]] = "absent" ->
                LegLoop(leg_ids, j + 1, legs, source, destination, flights)
           [] legs[leg_ids[j]] = "bad" -> [raised |-> TRUE, flights |-> flights]
           [] OTHER ->
                LegLoop(leg_ids, j + 1, legs, source, destination,
                        Append(flights, FlightOf(leg_ids[j], source, destination)))

\* the outer loop over itineraries, from position i
RECURSIVE ItineraryLoop(_, _, _, _, _, _)
ItineraryLoop(itineraries, i, legs, source, destination, flights) ==
    IF i > Len(itineraries) THEN [raised |-> FALSE, flights |-> flights]
    ELSE IF itineraries[i].bad THEN [raised |-> TRUE, flights |-> flights]
    ELSE LET inner == LegLoop(itineraries[i].legIds, 1, legs, source, destination, flights)
         IN IF inner.raised THEN inner
            ELSE ItineraryLoop(itineraries, i + 1, legs, source, destination, inner.flights)

\* the body of the try block up to the fallback test
Extract(data, source, destination) ==
    IF ~data.dict THEN [raised |-> TRUE, flights |-> <<>>]
    ELSE ItineraryLoop(data.itineraries, 1, data.legs, source, destination, <<>>)

\* process_flight_data with an except block that returns what was
\* collected before the exception
ProcessKeepsPartial(data, source, destination) ==
    LET e == Extract(data, source, destination)
    IN IF e.raised THEN [raised |-> FALSE, flights |-> e.flights]
       ELSE IF e.flights = <<>>
         THEN [raised |-> FALSE, flights |-> GenerateMockFlights(source, destination)]
         ELSE [raised |-> FALSE, flights |-> e.flights]

\* process_flight_data(data, source, destination)
ProcessFlightData(data, source, destination) ==
    LET e == Extract(data, source, destination)
    IN IF e.raised
         THEN [raised |-> FALSE, flights |-> GenerateMockFlights(source, destination)]
       ELSE IF e.flights = <<>>
         THEN [raised |-> FALSE, flights |-> GenerateMockFlights(source, destination)]
         ELSE [raised |-> FALSE, flights |-> e.flights]

InitPf ==
    /\ pfPc = "idle"
    /\ pfData = NoData
    /\ pfSource = ""
    /\ pfDestination = ""
    /\ pfResult = [raised |-> FALSE, flights |-> <<>>]

\* process_flight_request hands the daily data and the validated request's
\* source and destination to process_flight_data
process_flight_data(data, source, destination) ==
    /\ pfPc = "idle"
    /\ pfPc' = "done"
    /\ pfData' = data
    /\ pfSource' = source
    /\ pfDestination' = destination
    /\ pfResult' = ProcessFlightData(data, source, destination)
    /\ UNCHANGED notPf

\* process_flight_request returns; the controller serves the next request
FlightRequestDone ==
    /\ pfPc = "done"
    /\ pfPc' = "idle"
    /\ pfData' = NoData
    /\ pfSource' = ""
    /\ pfDestination' = ""
    /\ pfResult' = [raised |-> FALSE, flights |-> <<>>]
    /\ UNCHANGED notPf

NextPf ==
    \/ /\ pfPc = "idle"
       /\ \E data \in FlightData, source \in Airports, destination \in Airports :
             process_flight_data(data, source, destination)
    \/ FlightRequestDone

(***************************************************************************)
(* WeatherTool.call_mcp                                                    *)
(***************************************************************************)
PrimaryUrl == "http://weather-mcp:8080"
FallbackUrl == "http://localhost:8080"

WeatherTools == {"get_weather", "get_current_weather"}
\* tool names a caller may pass; get_forecast is none of the two
ToolNames == WeatherTools \cup {"get_forecast"}
Locations == {"", "Paris", "Rome"}

\* how _send_request(url, request) ends: it returns the "result" of the
\* response, returns {"error": ...} for a response with "error", raises a
\* requests.RequestException (connection, timeout, HTTP status), or raises
\* something else while reading the response
SendOutcomes == {"result", "rpc_error", "request_exception", "other_exception"}

NoAnswer == [report |-> FALSE, error |-> FALSE, simulated |-> FALSE, location |-> ""]

\* what a server answered
ServerResult(location) ==
    [report |-> TRUE, error |-> FALSE, simulated |-> FALSE, location |-> location]

\* {"error": ...}
McpError == [report |-> FALSE, error |-> TRUE, simulated |-> FALSE, location |-> ""]

\* get_simulated_weather(location)
SimulatedWeather(location) ==
    [report |-> TRUE, error |-> FALSE, simulated |-> TRUE,
     location |-> IF location = "" THEN "Unknown location" ELSE location]

\* the fallback request failed too, and that is always an error
BothFailedAlwaysError(tool_name, location) == McpError

\* the except block of the fallback request
BothFailed(tool_name, location) ==
    IF tool_name \in WeatherTools THEN SimulatedWeather(location) ELSE McpError

InitWt ==
    /\ wtPc = "idle"
    /\ mcp_server_url = PrimaryUrl
    /\ wtTool = ""
    /\ wtLocation = ""
    /\ wtTried = <<>>
    /\ wtResult = NoAnswer

\* call_mcp(tool_name, parameters) up to the first requests.post
call_mcp(tool_name, location) ==
    /\ wtPc = "idle"
    /\ wtPc' = "primary_sent"
    /\ wtTool' = tool_name
    /\ wtLocation' = location
    /\ wtTried' = <<[url |-> mcp_server_url, outcome |-> "pending"]>>
    /\ wtResult' = NoAnswer
    /\ UNCHANGED mcp_server_url
    /\ UNCHANGED notWt

\* the request to self.mcp_server_url ends
PrimaryResponse(outcome) ==
    /\ wtPc = "primary_sent"
    /\ IF outcome = "request_exception"
         THEN /\ wtPc' = "fallback_sent"
              /\ wtTried' = <<[url |-> wtTried[1].url, outcome |-> outcome],
                              [url |-> FallbackUrl, outcome |-> "pending"]>>
              /\ UNCHANGED wtResult
         ELSE /\ wtPc' = "done"
              /\ wtTried' = <<[url |-> wtTried[1].url, outcome |-> outcome]>>
              /\ wtResult' = IF outcome = "result" THEN ServerResult(wtLocation)
                                                   ELSE McpError
    /\ UNCHANGED <<mcp_server_url, wtTool, wtLocation>>
    /\ UNCHANGED notWt

\* the request to self.fallback_url ends; when _send_request returns, the
\* fallback URL becomes the primary URL of later calls
FallbackResponse(outcome) ==
    /\ wtPc = "fallback_sent"
    /\ wtPc' = "done"
    /\ wtTried' = <<wtTried[1], [url |-> wtTried[2].url, outcome |-> outcome]>>
    /\ mcp_server_url' = IF outcome \in {"result", "rpc_error"} THEN FallbackUrl
                                                                 ELSE mcp_server_url
    /\ wtResult' = CASE outcome = "result" -> ServerResult(wtLocation)
                      [] outcome = "rpc_error" -> McpError
                      [] outcome = "request_exception" -> BothFailed(wtTool, wtLocation)
                      [] OTHER -> McpError
    /\ UNCHANGED <<wtTool, wtLocation>>
    /\ UNCHANGED notWt

\* call_mcp has returned; the singleton serves the next call
CallMcpReturn ==
    /\ wtPc = "done"
    /\ wtPc' = "idle"
    /\ wtTool' = ""
    /\ wtLocation' = ""
    /\ wtTried' = <<>>
    /\ wtResult' = NoAnswer
    /\ UNCHANGED mcp_server_url
    /\ UNCHANGED notWt

NextWt ==
    \/ \E tool_name \in ToolNames, location \in Locations : call_mcp(tool_name, location)
    \/ \E outcome \in SendOutcomes : PrimaryResponse(outcome)
    \/ \E outcome \in SendOutcomes : FallbackResponse(outcome)
    \/ CallMcpReturn

(***************************************************************************)
(* SimplifiedMCP.handle_request                                            *)
(***************************************************************************)
\* A request by what handle_request reads of it.  dict: request_data is a
\* dict.  method: the "method" value.  params and parameters: "dict",
\* "absent" (the key is missing, the {} default applies) or "other" (null,
\* a list, a string: a value without .get).  name: params["name"], "None"
\* when absent.  location: parameters["location"]; "absent" and "" are
\* falsy.
Requests ==
    [dict : BOOLEAN,
     method : {"invoke", "initialize", "None"},
     params : {"dict", "absent", "other"},
     name : {"get_current_weather", "get_weather", "get_forecast", "None"},
     parameters : {"dict", "absent", "other"},
     location : {"absent", "", "Paris"}]

NoRequest ==
    [dict |-> FALSE, method |-> "None", params |-> "absent", name |-> "None",
     parameters |-> "absent", location |-> "absent"]

\* requests.get to OpenWeatherMap answers, or fails
OwmOutcomes == {"ok", "fails"}

\* {"error": message}
ErrorValue(message) ==
    [error |-> message, report |-> FALSE, location |-> "", data |-> ""]

\* {"result": {"report": ...}}: get_weather_data answers from OpenWeatherMap
\* or, when that fails, with its built-in values; get_weather_report turns
\* either into a report about the location
ResultValue(location, owm) ==
    [error |-> "", report |-> TRUE, location |-> location,
     data |-> IF owm = "ok" THEN "openweathermap" ELSE "built-in"]

NoResponse == [error |-> "", report |-> FALSE, location |-> "", data |-> ""]

\* tool_name = params.get("name")
ToolName(req) == IF req.params = "dict" THEN req.name ELSE "None"

\* parameters.get("location")
LocationOf(req) ==
    IF req.params = "dict" /\ req.parameters = "dict" THEN req.location ELSE "absent"

\* handle_request without the "if not location" test
HandleRequestNoLocationTest(req, owm) ==
    IF ~req.dict THEN [response |-> ErrorValue("Invalid request format"), owm |-> FALSE]
    ELSE IF req.method # "invoke"
      THEN [response |-> ErrorValue("Unknown method"), owm |-> FALSE]
    ELSE IF req.params = "other"
      THEN [response |-> ErrorValue("exception text"), owm |-> FALSE]
    ELSE IF ToolName(req) \notin {"get_current_weather", "get_weather"}
      THEN [response |-> ErrorValue("Unknown tool: " \o ToolName(req)), owm |-> FALSE]
    ELSE IF req.parameters = "other"
      THEN [response |-> ErrorValue("exception text"), owm |-> FALSE]
    ELSE [response |-> ResultValue(LocationOf(req), owm), owm |-> TRUE]

\* handle_request(request_data): the response, and whether OpenWeatherMap
\* was called.  .get on a params or parameters value that is not a dict
\* raises AttributeError, which the except block returns as {"error": str(e)}.
HandleRequest(req, owm) ==
    IF ~req.dict THEN [response |-> ErrorValue("Invalid request format"), owm |-> FALSE]
    ELSE IF req.method # "invoke"
      THEN [response |-> ErrorValue("Unknown method"), owm |-> FALSE]
    ELSE IF req.params = "other"
      THEN [response |-> ErrorValue("exception text"), owm |-> FALSE]
    ELSE IF ToolName(req) \notin {"get_current_weather", "get_weather"}
      THEN [response |-> ErrorValue("Unknown tool: " \o ToolName(req)), owm |-> FALSE]
    ELSE IF req.parameters = "other"
      THEN [response |-> ErrorValue("exception text"), owm |-> FALSE]
    ELSE IF LocationOf(req) \in {"absent", ""}
      THEN [response |-> ErrorValue("Location parameter is required"), owm |-> FALSE]
    ELSE [response |-> ResultValue(LocationOf(req), owm), owm |-> TRUE]

InitMcp ==
    /\ mcpPc = "idle"
    /\ mcpRequest = NoRequest
    /\ mcpResponse = NoResponse
    /\ owmCalled = FALSE

handle_request(req, owm) ==
    /\ mcpPc = "idle"
    /\ mcpPc' = "done"
    /\ mcpRequest' = req
    /\ mcpResponse' = HandleRequest(req, owm).response
    /\ owmCalled' = HandleRequest(req, owm).owm
    /\ UNCHANGED notMcp

\* the response is written; the server reads the next request
McpRespond ==
    /\ mcpPc = "done"
    /\ mcpPc' = "idle"
    /\ mcpRequest' = NoRequest
    /\ mcpResponse' = NoResponse
    /\ owmCalled' = FALSE
    /\ UNCHANGED notMcp

NextMcp ==
    \/ /\ mcpPc = "idle"
       /\ \E req \in Requests, owm \in OwmOutcomes : handle_request(req, owm)
    \/ McpRespond

(***************************************************************************)
(* LLMChatHistoryController                                                *)
(***************************************************************************)
SessionIds == {"s1", "s2"}
Emails == {"a@x.org", "b@x.org"}
Roles == {"user", "assistant"}
Contents == {"hello"}
MessageIds == 1..MaxMessages

\* what the database does with the method's statements: everything works,
\* the first query raises, or the commit raises
DbOutcomes == {"ok", "query_raises", "commit_raises"}

NoChatCall == [op |-> "none", session_id |-> ""]
NoChatResult == [status |-> 0, detail |-> "", lookup |-> "none"]

\* the return value of a method that succeeded
ChatSuccess(lookup) == [status |-> 200, detail |-> "success", lookup |-> lookup]

\* raise HTTPException(status_code=404, detail="Chat session not found")
ChatNotFound == [status |-> 404, detail |-> "Chat session not found", lookup |-> "missing"]

\* raise HTTPException(status_code=500, detail=...) from except Exception
ChatFailed(detail, lookup) == [status |-> 500, detail |-> detail, lookup |-> lookup]

\* a missing session answered as a success
LookupAlwaysFound(session_id, db) ==
    IF db = "query_raises" THEN "raised" ELSE "found"

\* self.db.query(ChatSession).filter(ChatSession.id == session_id).first()
Lookup(session_id, db) ==
    IF db = "query_raises" THEN "raised"
    ELSE IF session_id \in DOMAIN chat_sessions THEN "found" ELSE "missing"

\* a delete that leaves the messages of the session in the table
WithoutSessionNoCascade(session_id) == chat_messages

\* the rows left when a session is deleted: cascade="all, delete-orphan"
\* and ondelete='CASCADE' take its messages with it
WithoutSession(session_id) ==
    {m \in chat_messages : m.session_id # session_id}

InitCh ==
    /\ chat_sessions = [id \in {} |-> [user_email |-> "", last_updated |-> 0]]
    /\ chat_messages = {}
    /\ dbNow = 0
    /\ chPc = "idle"
    /\ chCall = NoChatCall
    /\ chResult = NoChatResult

\* create_session(chat_id, user_email): an id already stored violates the
\* primary key at commit
create_session(chat_id, user_email, db) ==
    /\ chPc = "idle"
    /\ chPc' = "done"
    /\ chCall' = [op |-> "create_session", session_id |-> chat_id]
    /\ IF db = "ok" /\ chat_id \notin DOMAIN chat_sessions
         THEN /\ dbNow < MaxDbTime
              /\ dbNow' = dbNow + 1
              /\ chat_sessions' =
                    [id \in DOMAIN chat_sessions \cup {chat_id} |->
                        IF id = chat_id
                          THEN [user_email |-> user_email, last_updated |-> dbNow']
                          ELSE chat_sessions[id]]
              /\ chResult' = ChatSuccess("none")
         ELSE /\ UNCHANGED <<chat_sessions, dbNow>>
              /\ chResult' = ChatFailed("Failed to create chat session", "none")
    /\ UNCHANGED chat_messages
    /\ UNCHANGED notCh

get_session(session_id, db) ==
    /\ chPc = "idle"
    /\ chPc' = "done"
    /\ chCall' = [op |-> "get_session", session_id |-> session_id]
    /\ chResult' = CASE Lookup(session_id, db) = "raised" ->
                           ChatFailed("Failed to retrieve chat session", "raised")
                      [] Lookup(session_id, db) = "missing" -> ChatNotFound
                      [] OTHER -> ChatSuccess("found")
    /\ UNCHANGED <<chat_sessions, chat_messages, dbNow>>
    /\ UNCHANGED notCh

get_chat_history(session_id, db) ==
    /\ chPc = "idle"
    /\ chPc' = "done"
    /\ chCall' = [op |-> "get_chat_history", session_id |-> session_id]
    /\ chResult' = CASE Lookup(session_id, db) = "raised" ->
                           ChatFailed("Failed to retrieve chat history", "raised")
                      [] Lookup(session_id, db) = "missing" -> ChatNotFound
                      [] OTHER -> ChatSuccess("found")
    /\ UNCHANGED <<chat_sessions, chat_messages, dbNow>>
    /\ UNCHANGED notCh

\* save_message(session_id, role, content): message_id is the uuid4 default
\* of ChatMessage.id
save_message(session_id, role, content, message_id, db) ==
    /\ chPc = "idle"
    /\ message_id \notin {m.id : m \in chat_messages}
    /\ chPc' = "done"
    /\ chCall' = [op |-> "save_message", session_id |-> session_id]
    /\ CASE Lookup(session_id, db) = "raised" ->
               /\ chResult' = ChatFailed("Failed to save message", "raised")
               /\ UNCHANGED <<chat_sessions, chat_messages, dbNow>>
          [] Lookup(session_id, db) = "missing" ->
               /\ chResult' = ChatNotFound
               /\ UNCHANGED <<chat_sessions, chat_messages, dbNow>>
          [] OTHER ->
               IF db = "commit_raises"
                 THEN /\ chResult' = ChatFailed("Failed to save message", "found")
                      /\ UNCHANGED <<chat_sessions, chat_messages, dbNow>>
                 ELSE /\ dbNow < MaxDbTime
                      /\ dbNow' = dbNow + 1
                      /\ chat_messages' = chat_messages \cup
                            {[id |-> message_id, session_id |-> session_id,
                              role |-> role, content |-> content,
                              created_at |-> dbNow']}
                      /\ chat_sessions' =
                            [chat_sessions EXCEPT ![session_id].last_updated = dbNow']
                      /\ chResult' = ChatSuccess("found")
    /\ UNCHANGED notCh

delete_session(session_id, db) ==
    /\ chPc = "idle"
    /\ chPc' = "done"
    /\ chCall' = [op |-> "delete_session", session_id |-> session_id]
    /\ CASE Lookup(session_id, db) = "raised" ->
               /\ chResult' = ChatFailed("Failed to delete chat session", "raised")
               /\ UNCHANGED <<chat_sessions, chat_messages>>
          [] Lookup(session_id, db) = "missing" ->
               /\ chResult' = ChatNotFound
               /\ UNCHANGED <<chat_sessions, chat_messages>>
          [] OTHER ->
               IF db = "commit_raises"
                 THEN /\ chResult' = ChatFailed("Failed to delete chat session", "found")
                      /\ UNCHANGED <<chat_sessions, chat_messages>>
                 ELSE /\ chat_sessions' =
                            [id \in DOMAIN chat_sessions \ {session_id} |-> chat_sessions[id]]
                      /\ chat_messages' = WithoutSession(session_id)
                      /\ chResult' = ChatSuccess("found")
    /\ UNCHANGED dbNow
    /\ UNCHANGED notCh

\* the parameters create_session declares without a default, and the
\* keyword arguments the POST /chat-history route passes to it
CreateSessionParams == {"chat_id", "user_email"}
RouteKeywords == {"user_email"}

\* POST /chat-history: controller.create_session(user_email=request.user_email).
\* A call that leaves a required parameter without a value raises TypeError
\* before the body of create_session runs; the framework answers 500.
post_chat_history(user_email, db) ==
    IF CreateSessionParams \ RouteKeywords # {}
      THEN /\ chPc = "idle"
           /\ chPc' = "done"
           /\ chCall' = [op |-> "post_chat_history", session_id |-> "",
                         user_email |-> user_email]
           /\ chResult' = [status |-> 500, detail |-> "TypeError", lookup |-> "none"]
           /\ UNCHANGED <<chat_sessions, chat_messages, dbNow>>
           /\ UNCHANGED notCh
      ELSE \E chat_id \in SessionIds : create_session(chat_id, user_email, db)

\* the response is sent; the next request gets its own controller
ChatReturn ==
    /\ chPc = "done"
    /\ chPc' = "idle"
    /\ chCall' = NoChatCall
    /\ chResult' = NoChatResult
    /\ UNCHANGED <<chat_sessions, chat_messages, dbNow>>
    /\ UNCHANGED notCh

NextCh ==
    \/ \E chat_id \in SessionIds, user_email \in Emails, db \in DbOutcomes :
          create_session(chat_id, user_email, db)
    \/ \E session_id \in SessionIds, db \in DbOutcomes : get_session(session_id, db)
    \/ \E session_id \in SessionIds, db \in DbOutcomes : get_chat_history(session_id, db)
    \/ \E session_id \in SessionIds, role \in Roles, content \in Contents,
          message_id \in MessageIds, db \in DbOutcomes :
          save_message(session_id, role, content, message_id, db)
    \/ \E session_id \in SessionIds, db \in DbOutcomes : delete_session(session_id, db)
    \/ \E user_email \in Emails, db \in DbOutcomes : post_chat_history(user_email, db)
    \/ ChatReturn

(***************************************************************************)
(* UserController.create_user                                              *)
(***************************************************************************)
\* requests in progress at the same time (one per server worker)
Workers == {1, 2}
Auth0Ids == {"auth0|a", "auth0|b"}
UserEmails == {"a@x.org", "b@x.org"}

NoUser == [id |-> 0, auth0id |-> "", email |-> ""]
NoUserData == [auth0id |-> "", email |-> ""]
NoUserResult == [status |-> 0, user |-> NoUser, created |-> FALSE]

\* a query that never finds a row
ExistingUserNone(auth0id) == {}

\* db.query(User).filter(User.auth0id == user_data.auth0id): the matching rows
ExistingUser(auth0id) == {u \in users : u.auth0id = auth0id}

InitUc ==
    /\ users = {}
    /\ nextUserId = 1
    /\ ucPc = [w \in Workers |-> "idle"]
    /\ ucData = [w \in Workers |-> NoUserData]
    /\ ucResult = [w \in Workers |-> NoUserResult]

\* create_user up to the test of existing_user: the stored row is returned,
\* or the query raises and the except block answers 500
CreateUserQuery(w, auth0id, email, db) ==
    /\ ucPc[w] = "idle"
    /\ ucData' = [ucData EXCEPT ![w] = [auth0id |-> auth0id, email |-> email]]
    /\ IF db = "query_raises"
         THEN /\ ucPc' = [ucPc EXCEPT ![w] = "done"]
              /\ ucResult' = [ucResult EXCEPT ![w] =
                                [status |-> 500, user |-> NoUser, created |-> FALSE]]
         ELSE IF ExistingUser(auth0id) # {}
           THEN /\ ucPc' = [ucPc EXCEPT ![w] = "done"]
                /\ ucResult' = [ucResult EXCEPT ![w] =
                                  [status |-> 201,
                                   user |-> CHOOSE u \in ExistingUser(auth0id) : TRUE,
                                   created |-> FALSE]]
           ELSE /\ ucPc' = [ucPc EXCEPT ![w] = "insert"]
                /\ UNCHANGED ucResult
    /\ UNCHANGED <<users, nextUserId>>
    /\ UNCHANGED notUc

\* db.add, db.commit, db.refresh: the unique constraint on auth0id rejects a
\* row another request committed in between; any failure is rolled back
CreateUserCommit(w, db) ==
    /\ ucPc[w] = "insert"
    /\ ucPc' = [ucPc EXCEPT ![w] = "done"]
    /\ IF db = "commit_raises"
         THEN /\ ucResult' = [ucResult EXCEPT ![w] =
                                [status |-> 500, user |-> NoUser, created |-> FALSE]]
              /\ UNCHANGED <<users, nextUserId>>
         ELSE /\ nextUserId <= MaxUserId
              /\ nextUserId' = nextUserId + 1
              /\ IF \E u \in users : u.auth0id = ucData[w].auth0id
                   THEN /\ ucResult' = [ucResult EXCEPT ![w] =
                                          [status |-> 500, user |-> NoUser, created |-> FALSE]]
                        /\ UNCHANGED users
                   ELSE LET new_user == [id |-> nextUserId, auth0id |-> ucData[w].auth0id,
                                         email |-> ucData[w].email]
                        IN /\ users' = users \cup {new_user}
                           /\ ucResult' = [ucResult EXCEPT ![w] =
                                             [status |-> 201, user |-> new_user,
                                              created |-> TRUE]]
    /\ UNCHANGED ucData
    /\ UNCHANGED notUc

\* create_current_user sends the response
CreateUserReturn(w) ==
    /\ ucPc[w] = "done"
    /\ ucPc' = [ucPc EXCEPT ![w] = "idle"]
    /\ ucData' = [ucData EXCEPT ![w] = NoUserData]
    /\ ucResult' = [ucResult EXCEPT ![w] = NoUserResult]
    /\ UNCHANGED <<users, nextUserId>>
    /\ UNCHANGED notUc

NextUc ==
    \/ \E w \in Workers, auth0id \in Auth0Ids, email \in UserEmails, db \in DbOutcomes :
          CreateUserQuery(w, auth0id, email, db)
    \/ \E w \in Workers, db \in DbOutcomes : CreateUserCommit(w, db)
    \/ \E w \in Workers : CreateUserReturn(w)

(***************************************************************************)
(* FlightController.process_flight_request                                 *)
(***************************************************************************)
FrDates == {"2025-05-15", "2025-05-16", "2025-06-01"}

\* validated FlightRequests
FlightRequests ==
    {[source |-> "PARI", destination |-> "BOS", date |-> d] : d \in FrDates}
        \cup {[source |-> "BOS", destination |-> "PARI", date |-> "2025-05-15"]}

NoFlightRequest == [source |-> "", destination |-> "", date |-> ""]

\* flight_date.strftime("%Y-%m")
MonthYear(date) ==
    CASE date \in {"2025-05-15", "2025-05-16"} -> "2025-05"
      [] date = "2025-06-01" -> "2025-06"
      [] OTHER -> ""

\* f"Flightdata/{source}_to_{destination}_{date}_daily.json"
DailyKey(req) == <<"Flightdata", req.source, req.destination, req.date, "daily">>

\* f"Flightdata/{source}_to_{destination}_{month_year}_monthly.json"
MonthlyKey(req) ==
    <<"Flightdata", req.source, req.destination, MonthYear(req.date), "monthly">>

NoConf == [daily_s3_key |-> <<>>, monthly_s3_key |-> <<>>]

\* airflow_payload["conf"], without the bucket names
AirflowConf(req) ==
    [daily_s3_key |-> DailyKey(req), monthly_s3_key |-> MonthlyKey(req)]

\* an order of steps that triggers the DAG right after the daily upload
StepAfterSkipsMonthly(pc) ==
    CASE pc = "fetch_daily" -> "fetch_monthly"
      [] pc = "fetch_monthly" -> "upload_daily"
      [] pc = "upload_daily" -> "trigger"
      [] pc = "upload_monthly" -> "trigger"
      [] OTHER -> "done"

\* the step that follows a step that did not raise
StepAfter(pc) ==
    CASE pc = "fetch_daily" -> "fetch_monthly"
      [] pc = "fetch_monthly" -> "upload_daily"
      [] pc = "upload_daily" -> "upload_monthly"
      [] pc = "upload_monthly" -> "trigger"
      [] OTHER -> "done"

\* exceptions, by what the except clauses of the routes tell apart
HttpException(status_code) == [class |-> "HTTPException", status_code |-> status_code]
OtherException == [class |-> "Exception", status_code |-> 0]
NoException == [class |-> "none", status_code |-> 0]

\* what fetch_flight_data does: it returns the data, the request to
\* SkyScanner (the search or a poll) times out, SkyScanner answers with a
\* status other than 200, or anything else raises
FetchOutcomes == {"ok", "timeout", "api_error", "raises"}

\* the exception fetch_flight_data raises
FetchException(outcome) ==
    CASE outcome = "timeout" -> HttpException(504)
      [] outcome = "api_error" -> HttpException(429)
      [] OTHER -> OtherException

\* post_flight_data and get_flight_data: `except ValueError` gives 400,
\* `except Exception`, which an HTTPException is too, gives 500
RouteStatus(exception) ==
    CASE exception.class = "none" -> 200
      [] exception.class = "ValueError" -> 400
      [] OTHER -> 500

InitFr ==
    /\ frPc = "idle"
    /\ frException = NoException
    /\ frStatus = 0
    /\ frRequest = NoFlightRequest
    /\ frFailedAt = ""
    /\ s3Objects = {}
    /\ frUploaded = {}
    /\ frConf = NoConf
    /\ dagTriggered = FALSE

process_flight_request(req) ==
    /\ frPc = "idle"
    /\ frPc' = "fetch_daily"
    /\ frRequest' = req
    /\ UNCHANGED <<frFailedAt, s3Objects, frUploaded, frConf, dagTriggered,
                   frException, frStatus>>
    /\ UNCHANGED notFr

\* the except block: log and raise e
FrRaise(exception) ==
    /\ frFailedAt' = frPc
    /\ frException' = exception
    /\ frPc' = "raised"

\* await fetch_flight_data(...), daily then monthly; after the monthly data
\* process_flight_data runs, which does not raise
FetchFlightData(outcome) ==
    /\ frPc \in {"fetch_daily", "fetch_monthly"}
    /\ IF outcome = "ok"
         THEN frPc' = StepAfter(frPc) /\ UNCHANGED <<frFailedAt, frException>>
         ELSE FrRaise(FetchException(outcome))
    /\ UNCHANGED <<frRequest, s3Objects, frUploaded, frConf, dagTriggered, frStatus>>
    /\ UNCHANGED notFr

\* await s3_service.upload_json(bucket, key, data), daily then monthly
UploadJson(ok) ==
    /\ frPc \in {"upload_daily", "upload_monthly"}
    /\ LET key == IF frPc = "upload_daily" THEN DailyKey(frRequest)
                                           ELSE MonthlyKey(frRequest)
       IN IF ok THEN /\ frPc' = StepAfter(frPc)
                     /\ s3Objects' = s3Objects \cup {key}
                     /\ frUploaded' = frUploaded \cup {key}
                     /\ UNCHANGED <<frFailedAt, frException>>
                ELSE /\ FrRaise(HttpException(500))
                     /\ UNCHANGED <<s3Objects, frUploaded>>
    /\ UNCHANGED <<frRequest, frConf, dagTriggered, frStatus>>
    /\ UNCHANGED notFr

\* await airflow_service.trigger_dag(airflow_payload): Airflow answers 2xx,
\* the request fails, or it times out after Airflow accepted the run
TriggerDag(outcome) ==
    /\ frPc = "trigger"
    /\ frConf' = AirflowConf(frRequest)
    /\ dagTriggered' = (outcome \in {"ok", "accepted_then_timeout"})
    /\ IF outcome = "ok"
         THEN frPc' = StepAfter(frPc) /\ UNCHANGED <<frFailedAt, frException>>
         ELSE FrRaise(HttpException(IF outcome = "fails" THEN 500 ELSE 504))
    /\ UNCHANGED <<frRequest, s3Objects, frUploaded, frStatus>>
    /\ UNCHANGED notFr

\* post_flight_data / get_flight_data: the FlightResponse or the
\* exception reaches the route, which answers the client
FlightRoute ==
    /\ frPc \in {"done", "raised"}
    /\ frPc' = "responded"
    /\ frStatus' = RouteStatus(frException)
    /\ UNCHANGED <<frRequest, frFailedAt, s3Objects, frUploaded, frConf, dagTriggered,
                   frException>>
    /\ UNCHANGED notFr

\* the request is over
FrReturn ==
    /\ frPc = "responded"
    /\ frPc' = "idle"
    /\ frException' = NoException
    /\ frStatus' = 0
    /\ frRequest' = NoFlightRequest
    /\ frFailedAt' = ""
    /\ frUploaded' = {}
    /\ frConf' = NoConf
    /\ dagTriggered' = FALSE
    /\ UNCHANGED s3Objects
    /\ UNCHANGED notFr

NextFr ==
    \/ \E req \in FlightRequests : process_flight_request(req)
    \/ \E outcome \in FetchOutcomes : FetchFlightData(outcome)
    \/ \E ok \in BOOLEAN : UploadJson(ok)
    \/ \E outcome \in {"ok", "fails", "accepted_then_timeout"} : TriggerDag(outcome)
    \/ FlightRoute
    \/ FrReturn

(***************************************************************************)
(* subagents/planning/agent.py: the planning graph and PlanningAgent       *)
(***************************************************************************)
\* the names of the five tools offered to the LLM
PlanningTools ==
    {"flight_search_agent", "hotel_search_agent", "restaurant_search_agent",
     "attractions_search_agent", "itinerary_agent"}

\* the tool calls of one LLM response, as the sequence of their names
LlmResponses == SeqUpTo(PlanningTools, MaxToolCalls)

\* What happens to one tool call inside execute_tool: "no_input" when the
\* call's arguments hold no input_str; "preprocess_raises" when the input
\* is natural language and the preprocess_*_query LLM call raises; else
\* the mini-agent runs on a string that is structured or not, and the API
\* it wraps answers with one of ToolOutcomes.
CallDraws ==
    [kind : {"no_input", "preprocess_raises"}, outcome : {"data"}]
      \cup [kind : {"structured", "natural"}, outcome : ToolOutcomes]

\* the result dict has "formatted_text" and "api_data": every literal of
\* the mini-agents but the bare {"error": ...}
HasText(result) == result # ErrorOnly

\* the mini-agent behind a tool, run on the string it is handed
AgentResult(tool_key, kind, outcome) ==
    CASE tool_key = "flight_search_agent" -> FlightAgentResult(kind, outcome)
      [] tool_key = "hotel_search_agent" -> HotelAgentResult(kind, outcome)
      [] tool_key = "restaurant_search_agent" ->
            RestaurantAgentResult(IF kind = "structured" THEN "location=Paris" ELSE "sushi",
                                  outcome)
      [] tool_key = "attractions_search_agent" ->
            AttractionsAgentResult(IF kind = "structured" THEN "location=Paris" ELSE "museums",
                                   {}, outcome)
      [] OTHER ->
            ItineraryAgentResult(
                [structured |-> kind = "structured", complete |-> TRUE,
                 travelersOk |-> TRUE, datesOk |-> TRUE, origin |-> TRUE],
                [flight |-> outcome, hotel |-> "data", attractions |-> "data",
                 restaurants |-> "data", llm |-> "json"])

\* The JSON object of a ToolMessage, by the fields its readers look at:
\* "status", a top-level "error", "formatted_text", and "api_data", which
\* is "absent", "plain" or "error" (it holds an "error" key).
ToolContent(status, error, formatted_text, api_data) ==
    [status |-> status, error |-> error, formatted_text |-> formatted_text,
     api_data |-> api_data]

\* standardized_error, and error_response of the except block
StandardizedError == ToolContent("error", TRUE, TRUE, "error")

\* execute_tool from the result of the mini-agent to the content written:
\* only a result with a top-level "error" key is standardized
ResultContent(result) ==
    IF result.error THEN StandardizedError
    ELSE ToolContent(IF result.status = "absent" THEN "success" ELSE result.status,
                     FALSE, HasText(result),
                     IF ~HasText(result) THEN "absent"
                     ELSE IF result.api_error THEN "error" ELSE "plain")

\* the body of execute_tool's loop for one matching call
CallContent(tool_key, draw) ==
    CASE draw.kind = "no_input" -> StandardizedError
      [] draw.kind = "preprocess_raises" -> ResultContent(ErrorOnly)
      [] OTHER -> ResultContent(AgentResult(tool_key, draw.kind, draw.outcome))

\* messages of the planning state
HumanMessage == [type |-> "human", id |-> 0, calls |-> <<>>,
                 content |-> ToolContent("none", FALSE, FALSE, "absent"), api_failed |-> FALSE]
SystemMessage == [HumanMessage EXCEPT !.type = "system"]
AIMessage(calls) == [HumanMessage EXCEPT !.type = "ai", !.calls = calls]
\* api_failed records that the API behind the call answered with an error
ToolMessage(tool_call_id, content, api_failed) ==
    [HumanMessage EXCEPT !.type = "tool", !.id = tool_call_id, !.content = content,
                         !.api_failed = api_failed]

\* the tool_call dicts planning_agent_node builds from response.tool_calls
ToolCalls(response, first_id) ==
    [k \in 1..Len(response) |-> [id |-> first_id + k - 1, name |-> response[k]]]

\* execute_tool(tool_func, state, tool_key): the loop over state["tools"]
\* from position i; every call's id is in last_tool_call_ids, which
\* planning_agent_node sets together with tools
RECURSIVE ExecuteTool(_, _, _, _, _)
ExecuteTool(tool_key, tools, i, draws, msgs) ==
    IF i > Len(tools) THEN msgs
    ELSE IF tools[i].name = tool_key
      THEN ExecuteTool(tool_key, tools, i + 1, draws,
                       Append(msgs, ToolMessage(tools[i].id, CallContent(tool_key, draws[i]),
                                                draws[i].kind = "structured"
                                                  /\ draws[i].outcome = "error")))
      ELSE ExecuteTool(tool_key, tools, i + 1, draws, msgs)

\* should_continue(state)
ShouldContinue(tool_names) ==
    IF Len(tool_names) = 0 THEN "end"
    ELSE CASE tool_names[1] = "flight_search_agent" -> "execute_flight"
           [] tool_names[1] = "hotel_search_agent" -> "execute_hotel"
           [] tool_names[1] = "restaurant_search_agent" -> "execute_restaurant"
           [] tool_names[1] = "attractions_search_agent" -> "execute_attractions"
           [] tool_names[1] = "itinerary_agent" -> "execute_itinerary"
           [] OTHER -> "end"

\* the nodes build_planning_agent_graph adds and the tool each executes
ExecuteNodes ==
    [execute_flight |-> "flight_search_agent", execute_hotel |-> "hotel_search_agent",
     execute_restaurant |-> "restaurant_search_agent",
     execute_attractions |-> "attractions_search_agent",
     execute_itinerary |-> "itinerary_agent"]

\* what PlanningAgent.ainvoke returns: status, where output comes from,
\* and api_data ("empty", "plain" or "error")
PlanningResponse(status, output, api_data) ==
    [returned |-> TRUE, status |-> status, output |-> output, api_data |-> api_data]
NoPlanningResponse ==
    [returned |-> FALSE, status |-> "", output |-> "", api_data |-> ""]

\* the loop of ainvoke over reversed(final_state["messages"]), at message j
RECURSIVE ScanMessages(_, _, _)
ScanMessages(msgs, j, response) ==
    IF j = 0 THEN response
    ELSE IF msgs[j].type = "tool"
      THEN [response EXCEPT
              !.api_data = IF msgs[j].content.api_data = "absent"
                             THEN @ ELSE msgs[j].content.api_data,
              !.output = IF msgs[j].content.formatted_text THEN "formatted_text" ELSE @]
    ELSE IF msgs[j].type = "ai" /\ response.output = "Let me help you plan your trip."
      THEN ScanMessages(msgs, j - 1, [response EXCEPT !.output = "ai content"])
    ELSE ScanMessages(msgs, j - 1, response)

InitPg ==
    /\ pgPc = "idle"
    /\ pgRun = 0
    /\ pgMessages = <<>>
    /\ pgTools = <<>>
    /\ pgNextId = 1
    /\ pgLlmCalls = 0
    /\ pgResult = NoPlanningResponse

\* PlanningAgent.ainvoke up to its first self.graph.ainvoke(initial_state),
\* the one in front of the try block
PlanningAinvoke(weather) ==
    /\ pgPc \in {"idle", "returned", "raised"}
    /\ pgPc' = "agent"
    /\ pgRun' = 1
    /\ pgMessages' = IF weather THEN <<HumanMessage, SystemMessage>> ELSE <<HumanMessage>>
    /\ pgTools' = <<>>
    /\ pgNextId' = 1
    /\ pgLlmCalls' = 0
    /\ pgResult' = NoPlanningResponse
    /\ UNCHANGED notPg

\* planning_agent_node: the LLM answers with tool calls
planning_agent_node(response) ==
    /\ pgPc = "agent"
    /\ Len(response) = 0 \/ pgLlmCalls + 1 < MaxLlmCalls
    /\ pgLlmCalls' = pgLlmCalls + 1
    /\ pgTools' = ToolCalls(response, pgNextId)
    /\ pgMessages' = Append(pgMessages, AIMessage(ToolCalls(response, pgNextId)))
    /\ pgNextId' = pgNextId + Len(response)
    /\ pgPc' = "should_continue"
    /\ UNCHANGED <<pgRun, pgResult>>
    /\ UNCHANGED notPg

\* the graph run raises (base_llm.invoke raises inside planning_agent_node).
\* The first run of ainvoke is outside its try block, so the exception
\* leaves ainvoke; the second is inside, and the except block answers.
GraphRaises ==
    /\ pgPc = "agent"
    /\ pgPc' = IF pgRun = 1 THEN "raised" ELSE "returned"
    /\ pgResult' = IF pgRun = 1 THEN pgResult
                   ELSE PlanningResponse("error", "An error occurred", "error")
    /\ UNCHANGED <<pgRun, pgMessages, pgTools, pgNextId, pgLlmCalls>>
    /\ UNCHANGED notPg

\* the conditional edge after the agent node
PlanningEdge ==
    /\ pgPc = "should_continue"
    /\ pgPc' = LET next == ShouldContinue([k \in 1..Len(pgTools) |-> pgTools[k].name])
               IN IF next = "end" THEN "END" ELSE next
    /\ UNCHANGED <<pgRun, pgMessages, pgTools, pgNextId, pgLlmCalls, pgResult>>
    /\ UNCHANGED notPg

\* one of the five execute nodes, then the edge back to the agent node
execute_tool(draws) ==
    /\ pgPc \in DOMAIN ExecuteNodes
    /\ pgMessages' = ExecuteTool(ExecuteNodes[pgPc], pgTools, 1, draws, pgMessages)
    /\ pgPc' = "agent"
    /\ UNCHANGED <<pgRun, pgTools, pgNextId, pgLlmCalls, pgResult>>
    /\ UNCHANGED notPg

\* the first graph run of ainvoke has ended: the second one, inside the
\* try block, starts from the same initial_state dict, whose messages list
\* the nodes of the first run appended to
SecondRun ==
    /\ pgPc = "END"
    /\ pgRun = 1
    /\ pgRun' = 2
    /\ pgPc' = "agent"
    /\ pgTools' = <<>>
    /\ pgLlmCalls' = 0
    /\ UNCHANGED <<pgMessages, pgNextId, pgResult>>
    /\ UNCHANGED notPg

\* the second graph run has ended: ainvoke builds its response
PlanningReturn ==
    /\ pgPc = "END"
    /\ pgRun = 2
    /\ pgPc' = "returned"
    /\ pgResult' = ScanMessages(pgMessages, Len(pgMessages),
                      PlanningResponse("success", "Let me help you plan your trip.", "empty"))
    /\ UNCHANGED <<pgRun, pgMessages, pgTools, pgNextId, pgLlmCalls>>
    /\ UNCHANGED notPg

NextPg ==
    \/ \E weather \in BOOLEAN : PlanningAinvoke(weather)
    \/ \E response \in LlmResponses : planning_agent_node(response)
    \/ GraphRaises
    \/ PlanningEdge
    \/ pgPc \in DOMAIN ExecuteNodes /\ \E draws \in [1..MaxToolCalls -> CallDraws] : execute_tool(draws)
    \/ SecondRun
    \/ PlanningReturn

(***************************************************************************)
(* controllers/llmController.py: LLMController.ask_question                *)
(***************************************************************************)
\* A query, by what the checks of the controller compute from it:
\* greeting: query.lower().strip() is an allowed greeting, with or
\* without "!"; short: len(query.strip().split()) <= 2; keyword: some
\* travel keyword occurs in query.lower(); weather: one of the weather
\* terms occurs in it.
Queries == [greeting : BOOLEAN, short : BOOLEAN, keyword : BOOLEAN, weather : BOOLEAN]

\* A chat history: for each message, whether a travel keyword occurs in
\* its content.lower().
Histories == SeqUpTo(BOOLEAN, MaxHistory)

NoQuery == [greeting |-> FALSE, short |-> FALSE, keyword |-> FALSE, weather |-> FALSE]

\* the text of the redirect answer
RefusalText == "I'm your Travel AI Assistant and can only help with travel-related questions."

\* is_pure_greeting(query)
IsPureGreeting(query) == query.greeting

\* is_travel_related(query)
IsTravelRelated(query) ==
    IF IsPureGreeting(query) THEN TRUE
    ELSE IF query.short THEN FALSE
    ELSE query.keyword

\* _check_chat_history_context looking at every message of the history
CheckChatHistoryContextAll(chat_history) ==
    \E i \in 1..Len(chat_history) : chat_history[i]

\* _check_chat_history_context(chat_history): chat_history[-3:]
CheckChatHistoryContext(chat_history) ==
    LET recent_messages ==
            IF Len(chat_history) > 3
              THEN SubSeq(chat_history, Len(chat_history) - 2, Len(chat_history))
              ELSE chat_history
    IN \E i \in 1..Len(recent_messages) : recent_messages[i]

\* ensure_session_exists(chat_history_controller, chat_id, user_email):
\* the given session when get_session finds it, else a new one when
\* create_session and the get_session after it succeed, else None
EnsureSessionExists(chat_id, verified, created) ==
    IF chat_id # "None" /\ verified THEN chat_id
    ELSE IF created THEN "new-uuid"
    ELSE "None"

\* what ask_question returns
LlmRedirect(chat_id) ==
    [status |-> "redirect", answer |-> RefusalText, model |-> "filter", chat_id |-> chat_id]
LlmSuccess(chat_id) ==
    [status |-> "success", answer |-> "agent output", model |-> "agent", chat_id |-> chat_id]
NoLlmResult == [status |-> "none", answer |-> "", model |-> "", chat_id |-> "None"]

InitLlm ==
    /\ llmPc = "idle"
    /\ llmQuery = NoQuery
    /\ llmHistory = <<>>
    /\ llmDb = FALSE
    /\ llmEmail = FALSE
    /\ llmChatId = "None"
    /\ llmSaved = <<>>
    /\ llmTried = <<>>
    /\ llmAgentInput = ""
    /\ llmInvoked = FALSE
    /\ llmResult = NoLlmResult

\* ask_question is called; db says a database session was passed,
\* user_email that an e-mail address was
ask_question(query, chat_history, chat_id, user_email, db) ==
    /\ llmPc = "idle"
    /\ llmQuery' = query
    /\ llmHistory' = chat_history
    /\ llmChatId' = chat_id
    /\ llmEmail' = user_email
    /\ llmDb' = db
    /\ llmPc' = IF db /\ user_email THEN "ensure_session" ELSE "load_history"
    /\ UNCHANGED <<llmSaved, llmTried, llmAgentInput, llmInvoked, llmResult>>
    /\ UNCHANGED notLlm

\* chat_id = await self.ensure_session_exists(...)
LlmEnsureSession(verified, created) ==
    /\ llmPc = "ensure_session"
    /\ llmChatId' = EnsureSessionExists(llmChatId, verified, created)
    /\ llmPc' = "load_history"
    /\ UNCHANGED <<llmQuery, llmHistory, llmDb, llmEmail, llmSaved, llmTried,
                   llmAgentInput, llmInvoked, llmResult>>
    /\ UNCHANGED notLlm

\* the stored history replaces an empty chat_history; stored is what
\* get_chat_history returns, and failed says that it raised.  A session
\* created just now has no messages.
LlmLoadHistory(stored, failed) ==
    /\ llmPc = "load_history"
    /\ llmChatId = "new-uuid" => stored = <<>>
    /\ llmHistory' =
          IF llmChatId # "None" /\ llmDb /\ llmHistory = <<>>
            THEN IF failed THEN <<>> ELSE stored
            ELSE llmHistory
    /\ llmPc' = "filter"
    /\ UNCHANGED <<llmQuery, llmDb, llmEmail, llmChatId, llmSaved, llmTried,
                   llmAgentInput, llmInvoked, llmResult>>
    /\ UNCHANGED notLlm

\* LlmSave keeping only the message saved last
LlmSaveOverwrites(saved, role, ok) ==
    IF llmChatId # "None" /\ llmDb /\ ok THEN <<role>> ELSE saved

\* save_message of the controller: nothing without a session or a
\* database, and a failure of the chat history controller is swallowed
LlmSave(saved, role, ok) ==
    IF llmChatId # "None" /\ llmDb /\ ok THEN Append(saved, role) ELSE saved

\* save_message reaches the await on the chat history controller
LlmTry(tried, role) ==
    IF llmChatId # "None" /\ llmDb THEN Append(tried, role) ELSE tried

\* the user message is saved and the off-topic filter decides
LlmFilter(ok_user, ok_assistant) ==
    /\ llmPc = "filter"
    /\ IF ~IsTravelRelated(llmQuery) /\ ~CheckChatHistoryContext(llmHistory)
         THEN /\ llmSaved' = LlmSave(LlmSave(llmSaved, "user", ok_user), "assistant", ok_assistant)
              /\ llmTried' = LlmTry(LlmTry(llmTried, "user"), "assistant")
              /\ llmResult' = LlmRedirect(llmChatId)
              /\ llmPc' = "returned"
              /\ UNCHANGED llmAgentInput
         ELSE /\ llmSaved' = LlmSave(llmSaved, "user", ok_user)
              /\ llmTried' = LlmTry(llmTried, "user")
              /\ llmAgentInput' =
                    IF llmQuery.weather \/ llmHistory = <<>>
                      THEN "query" ELSE "history and query"
              /\ llmPc' = "agent"
              /\ UNCHANGED llmResult
    /\ UNCHANGED <<llmQuery, llmHistory, llmDb, llmEmail, llmChatId, llmInvoked>>
    /\ UNCHANGED notLlm

\* the try block: the sub-agents are validated, root_agent.ainvoke is
\* awaited and the answer saved; any exception becomes a 500
LlmInvokeAgent(outcome, ok_assistant) ==
    /\ llmPc = "agent"
    /\ llmInvoked' = (outcome # "invalid_sub_agent")
    /\ IF outcome = "answers"
         THEN /\ llmResult' = LlmSuccess(llmChatId)
              /\ llmSaved' = LlmSave(llmSaved, "assistant", ok_assistant)
              /\ llmTried' = LlmTry(llmTried, "assistant")
              /\ llmPc' = "returned"
         ELSE /\ llmResult' = [NoLlmResult EXCEPT !.status = "500"]
              /\ llmPc' = "raised"
              /\ UNCHANGED <<llmSaved, llmTried>>
    /\ UNCHANGED <<llmQuery, llmHistory, llmDb, llmEmail, llmChatId, llmAgentInput>>
    /\ UNCHANGED notLlm

\* the request is over
LlmReturn ==
    /\ llmPc \in {"returned", "raised"}
    /\ llmPc' = "idle"
    /\ llmQuery' = NoQuery
    /\ llmHistory' = <<>>
    /\ llmDb' = FALSE
    /\ llmEmail' = FALSE
    /\ llmChatId' = "None"
    /\ llmSaved' = <<>>
    /\ llmTried' = <<>>
    /\ llmAgentInput' = ""
    /\ llmInvoked' = FALSE
    /\ llmResult' = NoLlmResult
    /\ UNCHANGED notLlm

NextLlm ==
    \/ llmPc = "idle" /\ \E query \in Queries, chat_history \in Histories,
                            chat_id \in {"None", "chat-1"}, user_email \in BOOLEAN,
                            db \in BOOLEAN :
                            ask_question(query, chat_history, chat_id, user_email, db)
    \/ \E verified \in BOOLEAN, created \in BOOLEAN : LlmEnsureSession(verified, created)
    \/ llmPc = "load_history" /\ \E stored \in Histories, failed \in BOOLEAN :
                                    LlmLoadHistory(stored, failed)
    \/ \E ok_user \in BOOLEAN, ok_assistant \in BOOLEAN : LlmFilter(ok_user, ok_assistant)
    \/ \E outcome \in {"answers", "raises", "invalid_sub_agent"}, ok \in BOOLEAN :
            LlmInvokeAgent(outcome, ok)
    \/ LlmReturn

(***************************************************************************)
(* routes/flightRoute.py: analyze_flights (GET /analysis)                  *)
(***************************************************************************)
\* origin_id, destination_id, departure_date of the request
AnalysisRequests ==
    [origin_id : {"BOS", "PARI"}, destination_id : {"BOS", "PARI"},
     departure_date : {"2025-05-15", "2025-05-16"}]
NoAnalysisRequest == [origin_id |-> "", destination_id |-> "", departure_date |-> ""]

\* A row of DAILY_FLIGHTS that matches the request, by price_raw; sound
\* says departure_time and arrival_time are timestamps and price_raw a
\* number, so that the analysis of the row does not raise.
FlightRows == [price_raw : {120, 340}, sound : BOOLEAN]

\* what the cursor does: "rows" when execute and fetchall answer,
\* "raises" when one of them raises
CursorOutcomes == {"rows", "raises"}

\* min(flights, key=lambda x: x['price_raw'])['price_raw']
CheapestPrice(rows) == CHOOSE p \in {r.price_raw : r \in rows} :
                          \A r \in rows : p <= r.price_raw

\* what the client receives
AnalysisResponse(status, detail, cheapest) ==
    [status |-> status, detail |-> detail, cheapest |-> cheapest]
NoAnalysisResponse == AnalysisResponse(0, "", 0)

\* the exception raised inside the try block of analyze_flights: "none"
\* when the analysis is returned
AnalysisRaises(outcome, rows) ==
    IF outcome = "raises" THEN "Exception"
    ELSE IF rows = {} THEN "404: No flights found"
    ELSE IF \E r \in rows : ~r.sound THEN "Exception"
    ELSE "none"

\* analyze_flights: every exception of the try block, the HTTPException
\* raised for an empty result included, reaches `except Exception` and
\* becomes a 500 whose detail quotes it
AnalyzeFlights(outcome, rows) ==
    IF AnalysisRaises(outcome, rows) = "none"
      THEN AnalysisResponse(200, "", CheapestPrice(rows))
      ELSE AnalysisResponse(500, AnalysisRaises(outcome, rows), 0)

InitAn ==
    /\ anPc = "idle"
    /\ anRequest = NoAnalysisRequest
    /\ anRows = {}
    /\ anFetched = FALSE
    /\ anResponse = NoAnalysisResponse

\* GET /analysis arrives and the query is sent
analyze_flights(request) ==
    /\ anPc = "idle"
    /\ anPc' = "query"
    /\ anRequest' = request
    /\ UNCHANGED <<anRows, anFetched, anResponse>>
    /\ UNCHANGED notAn

\* cur.fetchall() answers with the stored flights that match, or the
\* cursor raises; the route answers the client
AnalysisRespond(outcome, rows) ==
    /\ anPc = "query"
    /\ anPc' = "responded"
    /\ anFetched' = (outcome = "rows")
    /\ anRows' = IF outcome = "rows" THEN rows ELSE {}
    /\ anResponse' = AnalyzeFlights(outcome, rows)
    /\ UNCHANGED anRequest
    /\ UNCHANGED notAn

\* the request is over
AnalysisDone ==
    /\ anPc = "responded"
    /\ anPc' = "idle"
    /\ anRequest' = NoAnalysisRequest
    /\ anRows' = {}
    /\ anFetched' = FALSE
    /\ anResponse' = NoAnalysisResponse
    /\ UNCHANGED notAn

NextAn ==
    \/ \E request \in AnalysisRequests : analyze_flights(request)
    \/ \E outcome \in CursorOutcomes, rows \in SUBSET FlightRows :
            AnalysisRespond(outcome, rows)
    \/ AnalysisDone

(***************************************************************************)
(* simplified_mcp_server.py: SimplifiedMCP.run, the STDIO loop             *)
(***************************************************************************)
\* What a line of stdin is after line.strip(): "blank"; "garbage", which
\* json.loads rejects; "object", a JSON object; "plain", a list or string
\* in which "id" does not occur; "holds id", a list with the element "id"
\* or a string containing id; "scalar", a number, true, false or null.
LineKinds == {"blank", "garbage", "object", "plain", "holds id", "scalar"}

\* the "id" member of a JSON object: absent, a value, or null
RequestIds == {"absent", "7", "null"}

\* a line written to stdout: the id ("absent" without the key) and the
\* error or result of the response
ResponseLine(id, body) == [jsonrpc |-> "2.0", id |-> id, body |-> body]

\* `"id" in request` and `request["id"]` raise TypeError for this value
IdTestRaises(kind) == kind \in {"holds id", "scalar"}

\* The body of the for loop for one line that is not blank: the line
\* written, or "raised" when an exception other than JSONDecodeError
\* leaves the inner try block.
LoopBody(kind, id, req, owm) ==
    IF kind = "garbage"
      THEN [raised |-> FALSE, line |-> ResponseLine("null", ErrorValue("Invalid JSON"))]
    ELSE IF IdTestRaises(kind)
      THEN [raised |-> TRUE, line |-> ResponseLine("absent", NoResponse)]
    ELSE IF kind = "plain"
      THEN [raised |-> FALSE,
            line |-> ResponseLine("absent", HandleRequest(NoRequest, owm).response)]
    ELSE [raised |-> FALSE, line |-> ResponseLine(id, HandleRequest(req, owm).response)]

InitStdio ==
    /\ stdioPc = "reading"
    /\ stdioRead = 0
    /\ stdout = <<>>

\* one iteration of `for line in sys.stdin`; an exception that leaves the
\* loop is not caught by `except KeyboardInterrupt` and ends run()
StdioLine(kind, id, req, owm) ==
    /\ stdioPc = "reading"
    /\ stdioRead < MaxLines
    /\ IF kind = "blank"
         THEN UNCHANGED stdioVars
         ELSE /\ stdioRead' = stdioRead + 1
              /\ IF LoopBody(kind, id, req, owm).raised
                   THEN stdioPc' = "crashed" /\ UNCHANGED stdout
                   ELSE /\ stdout' = Append(stdout, LoopBody(kind, id, req, owm).line)
                        /\ UNCHANGED stdioPc
    /\ UNCHANGED notStdio

\* stdin is closed, or Ctrl-C: run() returns
StdioEnd ==
    /\ stdioPc = "reading"
    /\ stdioPc' = "ended"
    /\ UNCHANGED <<stdioRead, stdout>>
    /\ UNCHANGED notStdio

\* the server is started again
StdioStart ==
    /\ stdioPc \in {"ended", "crashed"}
    /\ stdioPc' = "reading"
    /\ stdioRead' = 0
    /\ stdout' = <<>>
    /\ UNCHANGED notStdio

\* the objects read from stdin: requests that are dicts
ObjectRequests ==
    {req \in Requests : req.dict /\ req.params # "other" /\ req.parameters # "other"}

NextStdio ==
    \/ stdioPc = "reading" /\ \E kind \in LineKinds \ {"object"} :
            StdioLine(kind, "absent", NoRequest, "ok")
    \/ stdioPc = "reading" /\ \E id \in RequestIds, req \in ObjectRequests, owm \in OwmOutcomes :
            StdioLine("object", id, req, owm)
    \/ StdioEnd
    \/ StdioStart

Init ==
    /\ InitPoll /\ InitRate /\ InitAmadeus /\ InitRoot /\ InitMini /\ InitPf /\ InitWt
    /\ InitMcp
    /\ InitCh
    /\ InitUc
    /\ InitFr
    /\ InitPg
    /\ InitLlm
    /\ InitAn
    /\ InitStdio

SpecMcp == Init /\ [][NextMcp]_vars

SpecCh == Init /\ [][NextCh]_vars

SpecUc == Init /\ [][NextUc]_vars

SpecPg == Init /\ [][NextPg]_vars

SpecLlm == Init /\ [][NextLlm]_vars

SpecAn == Init /\ [][NextAn]_vars

SpecStdio == Init /\ [][NextStdio]_vars

SpecFr == Init /\ [][NextFr]_vars

SpecWt == Init /\ [][NextWt]_vars

SpecPf == Init /\ [][NextPf]_vars

SpecMini == Init /\ [][NextMini]_vars

SpecRoot == Init /\ [][NextRoot]_vars

SpecRate == Init /\ [][NextRate]_vars

SpecAmadeus == Init /\ [][NextAmadeus]_vars

SpecPoll == Init /\ [][NextPoll]_vars

\* the event loop runs a started coroutine to its end
FairSpecPoll == SpecPoll /\ WF_vars(PollStep)

(***************************************************************************)
(* Properties of fetch_incomplete_search                                   *)
(***************************************************************************)
PollDone == pollPc \in {"returned", "raised"}

\* C1: a call of fetch_incomplete_search sends at most max_attempts poll
\* requests, whatever the endpoint answers; a response with status
\* 'complete' ends the polling and is the value returned; and every
\* started call terminates.
C1_BoundedPolling ==
    /\ [](pollRequests <= maxAttempts /\ attempt <= maxAttempts)
    /\ []((pollData # Unbound /\ pollData.status = "complete")
            => (pollPc = "returned" /\ pollResult = [kind |-> "value", data |-> pollData]))
    /\ (pollPc = "polling") ~> PollDone

\* a call under the default limit that polled more than once and stopped
\* at a 'complete' response before the limit
C1_Witness ==
    /\ pollPc = "returned"
    /\ maxAttempts = MAX_POLLING_ATTEMPTS
    /\ pollRequests > 1
    /\ pollRequests < maxAttempts
    /\ pollData.status = "complete"

\* C2: for any configured attempt limit, when the loop ends because the
\* attempts are exhausted, the call returns the most recent poll response
\* as a normal result and raises nothing.
C2_ExhaustedReturnsLast ==
    [][PollExhausted =>
         (pollPc' = "returned" /\ pollData # Unbound
          /\ pollResult' = [kind |-> "value", data |-> pollData])]_vars

(***************************************************************************)
(* Properties of the RateLimiter                                           *)
(***************************************************************************)
\* C3: every record_429 sets backoff_time to min(2 * previous, 60), no other
\* operation changes it, and backoff_time stays between 5 and 60.
C3_BackoffDoublesCapped ==
    /\ [](backoff_time >= 5 /\ backoff_time <= 60)
    /\ [][RateRecord429 =>
            backoff_time' = (IF 2 * backoff_time <= 60 THEN 2 * backoff_time ELSE 60)]_vars
    /\ [][~RateRecord429 => backoff_time' = backoff_time]_vars

\* the back-off has reached the cap after 429s, with calls recorded
C3_Witness ==
    /\ backoff_time = 60
    /\ last_429_time # NoTime
    /\ Len(call_timestamps) >= max_calls
    /\ wait > 0

\* the positions of perform_flight_search_api at which a request has just
\* been sent (now is the time it left)
SentPcs == {"token_sent", "iata_from_sent", "iata_to_sent", "search_sent"}

\* C4: once a 429 has been recorded at time T, no Amadeus request leaves
\* before T + backoff_time.
C4_NoRequestDuringBackoff ==
    (amPc \in SentPcs /\ last_429_time # NoTime)
        => now >= last_429_time + backoff_time

\* a request that left exactly when the second back-off (20 s) ended
C4_Witness ==
    /\ amPc \in SentPcs
    /\ last_429_time # NoTime
    /\ backoff_time = 20
    /\ now = last_429_time + backoff_time

(***************************************************************************)
(* Properties of the travel graph                                          *)
(***************************************************************************)
\* C5: for every user input and every reply of the fallback classifier,
\* the current_agent chosen by root_agent_node is one of explore_agent,
\* pre_travel_agent and planning_agent, a node the graph can route to.
C5_RoutesToSubAgent ==
    rootPc = "route" => current_agent \in GraphTargets

\* the returned dict reports an error: an "error" key or status "error"
MiniReported == miniResult.error \/ miniResult.status = "error"

\* C6 as stated: every mini-agent call returns a dict, and a failure of
\* parsing or of an external API it used is reported in it as an error.
C6_FailureAlwaysReported ==
    miniCall.agent # "none" =>
        /\ ~miniResult.raised
        /\ (miniCall.parse_failed \/ miniCall.api_failed) => MiniReported

\* C6: every mini-agent call returns a dict and never propagates an
\* exception; the flight, hotel, restaurant and attractions agents report a
\* failure of parsing or of the external API as an error; itinerary_agent
\* reports an error exactly for an unparsable input or an exception raised
\* while building, and returns success when a wrapped search returns an
\* error dict or the LLM call fails.
C6_MiniAgentsReturnDict ==
    miniCall.agent # "none" =>
        /\ ~miniResult.raised
        /\ miniCall.agent # "itinerary" =>
              ((miniCall.parse_failed \/ miniCall.api_failed) => MiniReported)
        /\ miniCall.agent = "itinerary" =>
              /\ MiniReported <=> (miniCall.parse_failed \/ miniCall.raised_inside)
              /\ ~MiniReported => miniResult.status = "success"

C6_Witness ==
    /\ miniCall.agent = "flight"
    /\ miniCall.api_failed
    /\ miniResult.error
    /\ ~miniResult.raised

(***************************************************************************)
(* Properties of process_flight_data                                       *)
(***************************************************************************)
\* some itinerary names a leg the response holds
SomeLegMatches ==
    \E i \in 1..Len(pfData.itineraries) :
        \E j \in 1..Len(pfData.itineraries[i].legIds) :
            pfData.legs[pfData.itineraries[i].legIds[j]] # "absent"

\* the result is MockCount mock flights for the requested pair
IsMockAnswer ==
    /\ Len(pfResult.flights) = MockCount
    /\ \A k \in 1..Len(pfResult.flights) :
          /\ pfResult.flights[k].mock
          /\ pfResult.flights[k].origin_id = pfSource
          /\ pfResult.flights[k].destination_id = pfDestination

\* C7: process_flight_data never raises and never returns an empty list;
\* when the response yields no flight, or extraction throws, the result is
\* exactly 5 mock flights with the requested origin and destination.
C7_MockFallback ==
    pfPc = "done" =>
        /\ ~pfResult.raised
        /\ pfResult.flights # <<>>
        /\ (~pfData.dict \/ ~SomeLegMatches) => IsMockAnswer
        /\ Extract(pfData, pfSource, pfDestination).raised => IsMockAnswer

\* extraction threw on the second leg after one flight had been built
C7_Witness ==
    /\ pfPc = "done"
    /\ pfData.dict
    /\ Extract(pfData, pfSource, pfDestination).raised
    /\ Extract(pfData, pfSource, pfDestination).flights # <<>>
    /\ IsMockAnswer

(***************************************************************************)
(* Properties of WeatherTool.call_mcp                                      *)
(***************************************************************************)
\* both requests of the call ended with a requests.RequestException
BothUrlsFailed ==
    /\ Len(wtTried) = 2
    /\ wtTried[1].outcome = "request_exception"
    /\ wtTried[2].outcome = "request_exception"

\* C8: call_mcp asks the primary URL first and the fallback URL second;
\* for get_weather and get_current_weather, when both fail with a request
\* error it returns a simulated report (a 'report', no 'error'), and a
\* result with 'error' never follows from request errors alone.
C8_SimulatedOnConnectFailure ==
    /\ Len(wtTried) >= 1 => wtTried[1].url = mcp_server_url \/ wtTried[1].url = PrimaryUrl
    /\ Len(wtTried) = 2 =>
          /\ wtTried[1].outcome = "request_exception"
          /\ wtTried[2].url = FallbackUrl
    /\ (wtPc = "done" /\ wtTool \in WeatherTools) =>
          /\ BothUrlsFailed =>
                /\ wtResult.report
                /\ ~wtResult.error
                /\ wtResult.simulated
          /\ wtResult.error =>
                \E k \in 1..Len(wtTried) :
                    wtTried[k].outcome \in {"rpc_error", "other_exception"}

C8_Witness ==
    /\ wtPc = "done"
    /\ wtTool = "get_weather"
    /\ BothUrlsFailed
    /\ wtResult.simulated

(***************************************************************************)
(* Properties of SimplifiedMCP.handle_request                              *)
(***************************************************************************)
\* the four rejections with their messages, none of which reaches
\* OpenWeatherMap
McpRejections ==
    /\ ~mcpRequest.dict => mcpResponse.error = "Invalid request format"
    /\ (mcpRequest.dict /\ mcpRequest.method # "invoke") =>
          mcpResponse.error = "Unknown method"
    /\ (mcpRequest.dict /\ mcpRequest.method = "invoke" /\ mcpRequest.params # "other"
          /\ ToolName(mcpRequest) \notin {"get_current_weather", "get_weather"}) =>
          mcpResponse.error = "Unknown tool: " \o ToolName(mcpRequest)
    /\ (mcpRequest.dict /\ mcpRequest.method = "invoke" /\ mcpRequest.params = "dict"
          /\ mcpRequest.name \in {"get_current_weather", "get_weather"}
          /\ mcpRequest.parameters # "other"
          /\ LocationOf(mcpRequest) \in {"absent", ""}) =>
          mcpResponse.error = "Location parameter is required"
    /\ mcpResponse.error # "" => ~owmCalled /\ ~mcpResponse.report

\* the requests the four rejections are about
McpMalformed ==
    \/ ~mcpRequest.dict
    \/ mcpRequest.method # "invoke"
    \/ ToolName(mcpRequest) \notin {"get_current_weather", "get_weather"}
    \/ LocationOf(mcpRequest) \in {"absent", ""}

\* C9 as stated: the four rejections give their four messages, and every
\* other request yields a result with a report.
C9_OnlyFourRejections ==
    mcpPc = "done" =>
        /\ ~mcpRequest.dict => mcpResponse.error = "Invalid request format"
        /\ (mcpRequest.dict /\ mcpRequest.method # "invoke") =>
              mcpResponse.error = "Unknown method"
        /\ (mcpRequest.dict /\ mcpRequest.method = "invoke"
              /\ ToolName(mcpRequest) \notin {"get_current_weather", "get_weather"}) =>
              mcpResponse.error = "Unknown tool: " \o ToolName(mcpRequest)
        /\ (mcpRequest.dict /\ mcpRequest.method = "invoke"
              /\ ToolName(mcpRequest) \in {"get_current_weather", "get_weather"}
              /\ LocationOf(mcpRequest) \in {"absent", ""}) =>
              mcpResponse.error = "Location parameter is required"
        /\ mcpResponse.error # "" => ~owmCalled
        /\ ~McpMalformed => mcpResponse.report /\ mcpResponse.error = ""

\* C9: a non-dict request, a method other than invoke, a tool name other
\* than the two weather tools and a missing or empty location are rejected
\* with their four messages; a params value that is not a dict, or for the
\* two weather tools a parameters value that is not a dict, is rejected
\* with the text of the exception; no rejection calls OpenWeatherMap; every
\* other request yields a result with a report.
C9_MalformedRejected ==
    mcpPc = "done" =>
        /\ McpRejections
        /\ (mcpRequest.dict /\ mcpRequest.method = "invoke"
              /\ \/ mcpRequest.params = "other"
                 \/ /\ mcpRequest.params = "dict"
                    /\ mcpRequest.name \in {"get_current_weather", "get_weather"}
                    /\ mcpRequest.parameters = "other") =>
              mcpResponse.error = "exception text"
        /\ (mcpRequest.dict /\ mcpRequest.method = "invoke" /\ mcpRequest.params = "dict"
              /\ mcpRequest.name \in {"get_current_weather", "get_weather"}
              /\ mcpRequest.parameters = "dict"
              /\ mcpRequest.location \notin {"absent", ""}) =>
              /\ mcpResponse.error = ""
              /\ mcpResponse.report
              /\ mcpResponse.location = mcpRequest.location

\* get_weather with an empty location is refused before any weather call
C9_Witness ==
    /\ mcpPc = "done"
    /\ mcpRequest.dict /\ mcpRequest.method = "invoke" /\ mcpRequest.params = "dict"
    /\ mcpRequest.name = "get_weather" /\ mcpRequest.parameters = "dict"
    /\ mcpRequest.location = ""
    /\ mcpResponse.error = "Location parameter is required"
    /\ ~owmCalled

(***************************************************************************)
(* Properties of the chat-history controller                               *)
(***************************************************************************)
LookupOps == {"get_session", "get_chat_history", "save_message", "delete_session"}

C11_MessagesHaveSession ==
    /\ \A m \in chat_messages : m.session_id \in DOMAIN chat_sessions
    /\ (chPc = "done" /\ chCall.op = "delete_session" /\ chResult.status = 200) =>
          /\ chCall.session_id \notin DOMAIN chat_sessions
          /\ \A m \in chat_messages : m.session_id # chCall.session_id

\* a session that had been created and written to is deleted, and the
\* table of messages is empty again
C11_Witness ==
    /\ chPc = "done"
    /\ chCall.op = "delete_session"
    /\ chResult.status = 200
    /\ dbNow >= 2
    /\ chat_sessions = [id \in {} |-> [user_email |-> "", last_updated |-> 0]]
    /\ chat_messages = {}

C13_PostCreatesSession ==
    (chPc = "done" /\ chCall.op = "post_chat_history") =>
        /\ chResult.status = 200
        /\ chResult.detail = "success"
        /\ \E id \in DOMAIN chat_sessions :
              chat_sessions[id].user_email = chCall.user_email

(***************************************************************************)
(* Properties of perform_flight_search_api                                 *)
(***************************************************************************)
\* the parameters lack a non-empty from, to or departureDate
LacksRequired(params) ==
    params.from = "" \/ params.to = "" \/ params.departureDate = ""

C15_DagAfterUploads ==
    /\ [][frConf' # frConf /\ frConf' # NoConf
            => /\ frUploaded = {DailyKey(frRequest), MonthlyKey(frRequest)}
               /\ frUploaded \subseteq s3Objects
               /\ frConf'.daily_s3_key = DailyKey(frRequest)
               /\ frConf'.monthly_s3_key = MonthlyKey(frRequest)]_vars
    /\ [](dagTriggered => frConf # NoConf)
    /\ [](frFailedAt \in {"fetch_daily", "fetch_monthly", "upload_daily", "upload_monthly"}
            => ~dagTriggered /\ frConf = NoConf)

\* the DAG run of a request whose monthly key was already in the bucket
C15_Witness ==
    /\ frPc = "done"
    /\ dagTriggered
    /\ frConf = AirflowConf(frRequest)
    /\ frRequest.date = "2025-05-16"
    /\ DailyKey([frRequest EXCEPT !.date = "2025-05-15"]) \in s3Objects


(***************************************************************************)
(* Direct weather answers of the travel graph                              *)
(***************************************************************************)
\* the texts root_agent_node writes when it answers a weather query itself
DirectWeatherTexts == {WeatherText, WeatherErrorText}

\* C16: when root_agent_node has answered a weather-only query itself (it
\* set is_weather_response and made the weather text the only message),
\* every later step of the run leaves that message the only one: the
\* sub-agent node appends nothing and the run ends with the weather text
\* as the last message, which Agent.invoke / Agent.ainvoke return.
C16_WeatherAnswerIsOutput ==
    is_weather_response =>
        /\ rootPc \in {"route"} \cup GraphTargets \cup {"END"}
        /\ Len(messages) = 1
        /\ messages[1].content \in DirectWeatherTexts


(***************************************************************************)
(* Properties of the planning graph                                        *)
(***************************************************************************)
\* some ToolMessage of the state carries the id of the call
Answered(call) ==
    \E j \in 1..Len(pgMessages) :
        pgMessages[j].type = "tool" /\ pgMessages[j].id = call.id

\* C17: whenever the agent node of the planning graph is about to invoke
\* the LLM, every tool call of the previous LLM response, whatever their
\* number and names, has a ToolMessage with its id among the messages.
C17_EveryCallAnswered ==
    pgPc = "agent" => \A k \in 1..Len(pgTools) : Answered(pgTools[k])

\* C18: every ToolMessage written for a call whose API answered with an
\* error has status "error", a top-level "error" field, a
\* "formatted_text" field and an "api_data" object holding the error.
C18_ErrorStructure ==
    \A j \in 1..Len(pgMessages) :
        (pgMessages[j].type = "tool" /\ pgMessages[j].api_failed)
            => pgMessages[j].content = StandardizedError

\* C19: PlanningAgent.ainvoke never lets an exception of the planning
\* graph out, what it returns has output, api_data and status, and after
\* a graph run that raised the status is "error" and output and api_data
\* carry the error.
C19_AinvokeAlwaysReturns ==
    /\ [](pgPc # "raised")
    /\ [](pgPc = "returned" =>
             (pgResult.returned /\ pgResult.status \in {"success", "error"}))
    /\ [][(pgPc = "agent" /\ pgPc' \in {"raised", "returned"})
            => (pgResult'.status = "error" /\ pgResult'.api_data = "error")]_vars


(***************************************************************************)
(* Properties of LLMController.ask_question                                *)
(***************************************************************************)
\* one of the last three messages of the history has a travel keyword
LastThreeTravel(h) == \E i \in 1..Len(h) : i > Len(h) - 3 /\ h[i]

\* C20: once the filter of ask_question has decided, a query that is not
\* travel-related (hence no pure greeting), asked with a chat history
\* none of whose last three messages has a travel keyword, has been
\* answered with status "redirect" and the fixed refusal text, and the
\* root agent was not invoked.
C20_OffTopicRedirected ==
    (llmPc \in {"agent", "returned", "raised"}
        /\ ~IsTravelRelated(llmQuery) /\ ~LastThreeTravel(llmHistory))
      => /\ llmPc = "returned"
         /\ llmResult.status = "redirect"
         /\ llmResult.answer = RefusalText
         /\ ~llmInvoked

\* an off-topic query is redirected although an older message of the
\* history was about travel
C20_Witness ==
    /\ llmPc = "returned"
    /\ llmResult.status = "redirect"
    /\ ~llmInvoked
    /\ Len(llmHistory) > 3
    /\ llmHistory[1]
    /\ ~llmQuery.greeting /\ llmQuery.keyword /\ llmQuery.short


\* ensure_session_exists ran and returned a session id
SessionResolved == llmDb /\ llmEmail /\ llmChatId # "None"

\* C21 as stated: in a call that resolved a session the user message is
\* saved before the agent is invoked and before any assistant message,
\* a call that returned has saved exactly one assistant message after
\* it, and a call that failed has saved the user message only.
C21_UserThenAssistantSaved ==
    (SessionResolved /\ llmPc \in {"agent", "returned", "raised"}) =>
        /\ llmPc = "agent" => llmSaved = <<"user">>
        /\ llmPc = "returned" => llmSaved = <<"user", "assistant">>
        /\ llmPc = "raised" => llmSaved = <<"user">>

\* a is b with some elements left out, for sequences without repetition
IsSubSeq(a, b) ==
    /\ \A i \in 1..Len(a) : \E j \in 1..Len(b) : a[i] = b[j]
    /\ \A i, j \in 1..Len(a) : i < j =>
          \E m, n \in 1..Len(b) : m < n /\ b[m] = a[i] /\ b[n] = a[j]

\* C21, amended: in a call that resolved a session the save of the user
\* message is requested before the agent is invoked and before the save
\* of any assistant message; a call that returned has requested exactly
\* one assistant save after it, a call that failed with 500 none; what is
\* saved is what was requested less the saves that failed; and a saved
\* message stays saved until the call is over.
C21_SavesRequestedInOrder ==
    /\ []((SessionResolved /\ llmPc \in {"agent", "returned", "raised"}) =>
            /\ llmPc = "agent" => (llmTried = <<"user">> /\ ~llmInvoked)
            /\ llmPc = "returned" => llmTried = <<"user", "assistant">>
            /\ llmPc = "raised" => (llmTried = <<"user">> /\ llmResult.status = "500"))
    /\ [](IsSubSeq(llmSaved, llmTried))
    /\ [][llmPc' # "idle" =>
            (Len(llmSaved') >= Len(llmSaved)
               /\ SubSeq(llmSaved', 1, Len(llmSaved)) = llmSaved)]_vars

\* the agent raised after the user message was saved
C21_Witness ==
    /\ SessionResolved
    /\ llmPc = "raised"
    /\ llmInvoked
    /\ llmSaved = <<"user">>


(***************************************************************************)
(* Properties of the flight routes                                         *)
(***************************************************************************)
\* C22: when the request to SkyScanner made by fetch_flight_data (the
\* search or a poll of fetch_incomplete_search) timed out, the client of
\* the flight route is answered with HTTP status 504.
C22_TimeoutIs504 ==
    (frPc = "responded"
        /\ frFailedAt \in {"fetch_daily", "fetch_monthly"}
        /\ frException = HttpException(504))
      => frStatus = 504


(***************************************************************************)
(* Properties of GET /analysis                                             *)
(***************************************************************************)
\* C23: when the query of analyze_flights was answered and no stored
\* flight matches origin, destination and departure date, the client
\* receives HTTP 404 with the detail "No flights found".
C23_NoFlightsIs404 ==
    (anPc = "responded" /\ anFetched /\ anRows = {})
      => (anResponse.status = 404 /\ anResponse.detail = "No flights found")


(***************************************************************************)
(* Properties of RESTAURANT_CACHE                                          *)
(***************************************************************************)
\* C24: a restaurant_search_agent call answered from RESTAURANT_CACHE,
\* that is without a new external search, never returns the error result
\* of an earlier failed search for the same input.
C24_CacheNeverServesFailure ==
    (miniCall.agent = "restaurant" /\ miniCall.from_cache)
      => (miniResult.status # "error" /\ ~miniResult.error /\ ~miniResult.api_error)


(***************************************************************************)
(* Properties of the STDIO loop of the weather server                      *)
(***************************************************************************)
\* C25: the STDIO loop is never ended by an input line, and it has
\* written one response line with jsonrpc "2.0" for every line read that
\* was not blank.
C25_LoopSurvives ==
    /\ stdioPc # "crashed"
    /\ Len(stdout) = stdioRead
    /\ \A k \in 1..Len(stdout) : stdout[k].jsonrpc = "2.0"

===============================================================================
